---- MODULE Spec2Model ----
(***************************************************************************)
(* OpenBrowserMCP.                                                         *)
(*                                                                         *)
(* Part I  (SpecRpc): the MCP server's RPC session, mcp/src/context.ts     *)
(*   (class Context) together with the connection handler of               *)
(*   mcp/src/index.ts.  JavaScript runs each callback to completion, so    *)
(*   every handler is one atomic action.                                   *)
(* Part II (SpecDom): the content script's reference table, snapshot       *)
(*   walker and selector resolver, extension/lib/aria-snapshot.ts and      *)
(*   extension/lib/interactions.ts.                                        *)
(***************************************************************************)
EXTENDS Integers, Sequences, FiniteSets, TLC

VARIABLES
    \* ---- Part I: Context (server side) ----
    ws,               \* Context._ws: the current socket, None when undefined
    wsState,          \* readyState of every socket the server has accepted
    listeners,        \* sockets carrying the "message" listener of the ws setter
    pendingRequests,  \* keys of Context.pendingRequests
    timer,            \* per call: the deadline timer created by setTimeout
    promise,          \* per call: the promise returned by sendRpcRequest
    settles,          \* per call: how often resolve or reject was invoked
    settledBy,        \* per call: what invoked resolve or reject first
    sentOn,           \* per pending call: the socket its request was written to
    nextId,           \* number of correlation ids minted so far
    lastWarned,       \* id of the last "Received response for unknown request ID"
    \* ---- Part II: content script (page side) ----
    children,         \* the page: child elements of document.body and of each element
    hidden,           \* elements isHidden reports hidden (aria-hidden, CSS, zero box)
    gone,             \* elements that were garbage collected
    elementRefCounter,\* aria-snapshot.ts: elementRefCounter
    elementRefMap,    \* aria-snapshot.ts: elementRefMap, NoRef where it has no entry
    lastSnapshot,     \* the last snapshot generated
    owns,             \* per node: the element its aria-owns attribute names, or NoElem
    shadow,           \* per element: the child elements of its shadow root
    elemAttrs,        \* per element: the values of its role and alt attributes
    \* ---- Part III: one element under the classifier ----
    node,             \* the element: tag, attributes and text; NoNode before it exists
    row,              \* the row walkAriaTree emitted for it, NoRow when none
    resolved,         \* what findElement answered for the row's role and name
    \* ---- Part IV: content script message handler ----
    tabInbox,         \* messages sent to the tab that handleMessage has not run on yet
    performing,       \* interact messages waiting in waitForStability
    effects,          \* what the last handleMessage call did to the page, in order
    contentReplies,   \* CONTENT_RESPONSE messages on their way to the background
    \* ---- Part V: background service worker and the wire to the server ----
    bgWs,             \* the background's ws: its current WebSocket, or None
    bgState,          \* readyState of each WebSocket the background has created
    connectedTabId,   \* the tab requests are forwarded to, or NoTab
    connectionState,  \* background.ts: connectionState
    waiting,          \* WebSockets a call of connect is still waiting to open
    closedSince,      \* history: a WebSocket has closed and no CONNECT came since
    wsUrl,            \* background.ts: wsUrl
    connectReply,     \* the error the last CONNECT was answered with at once, or Undefined
    bgPending,        \* ids in the background's pendingRequests map
    toExtension,      \* requests the server has sent that no onmessage has run on yet
    toServer,         \* responses the background has sent that the server has not read yet
    asked,            \* per call: the arguments the interact tool was called with
    \* ---- Part VI: a text on its way through normalizeWhitespace ----
    rawText,          \* the text read from the page
    normalized,       \* what normalizeWhitespace returned for it, if it has been called
    \* ---- Part VII: the console capture of the content script ----
    arrays,           \* the arrays of the page: the buffer and the one getConsoleLogs returned
    logs,             \* handleConsole: the array getConsoleLogs returned last, or Undefined
    now,              \* Date.now()
    captured          \* history: every entry captured since the buffer was last cleared

rpcVars == <<ws, wsState, listeners, pendingRequests, timer, promise, settles,
             settledBy, sentOn, nextId, lastWarned>>

domVars == <<children, hidden, gone, elementRefCounter, elementRefMap, lastSnapshot>>

\* aria-owns attributes, shadow roots and role and alt attributes, which only
\* the pages of SpecWalk and SpecOrd have
walkVars == <<owns, shadow, elemAttrs>>

clsVars == <<node, row, resolved>>

csVars == <<tabInbox, performing, effects, contentReplies>>

bgVars == <<bgWs, bgState, connectedTabId, connectionState, waiting, closedSince, wsUrl,
            connectReply,
            bgPending, toExtension, toServer, asked>>

txtVars == <<rawText, normalized>>

logVars == <<arrays, logs, now, captured>>

vars == <<rpcVars, domVars, walkVars, clsVars, csVars, bgVars, txtVars, logVars>>

\* What the actions of each part leave alone
nonRpcVars == <<domVars, walkVars, clsVars, csVars, bgVars, txtVars, logVars>>
nonDomVars == <<rpcVars, walkVars, clsVars, csVars, bgVars, txtVars, logVars>>
nonClsVars == <<rpcVars, domVars, walkVars, csVars, bgVars, txtVars, logVars>>
nonWalkVars == <<rpcVars, clsVars, csVars, bgVars, txtVars, logVars>>
nonCsVars == <<rpcVars, walkVars, clsVars, bgVars, txtVars, logVars>>
nonBgVars == <<domVars, walkVars, clsVars, txtVars, logVars>>
nonTxtVars == <<rpcVars, domVars, walkVars, clsVars, csVars, bgVars, logVars>>
nonLogVars == <<rpcVars, domVars, walkVars, clsVars, csVars, bgVars, txtVars>>

----------------------------------------------------------------------------
(* Bounds and program constants *)

MaxCalls == 2
MaxConns == 2
MaxElems == 2
DefaultTimeoutMs == 30000
\* A timeout a caller passes instead of the default; also the clock's granularity
ShortTimeoutMs == DefaultTimeoutMs \div 2

None == 0
Undefined == "undefined"

Ids == 1..MaxCalls
Conns == 1..MaxConns
Timeouts == {ShortTimeoutMs, DefaultTimeoutMs}


\* Payloads a remote peer can put into a response
Results == {"r1"}
Errors == {[code |-> "ELEMENT_NOT_FOUND", message |-> "m1"]}
\* An absent "error" member of a response
NoError == [code |-> Undefined, message |-> Undefined]
\* A response is a tagged success or a typed error
Responses == [id : Ids, result : Results, error : {NoError}]
                 \cup [id : Ids, result : {Undefined}, error : Errors]
NoResponse == [id |-> None, result |-> Undefined, error |-> NoError]

noConnectionMessage == "No connection to browser extension"

\* The promise of a call that has not been made / has not settled
Unissued == [state |-> "unissued", value |-> Undefined, code |-> Undefined, message |-> Undefined]
Pending == [state |-> "pending", value |-> Undefined, code |-> Undefined, message |-> Undefined]
Fulfilled(v) == [state |-> "fulfilled", value |-> v, code |-> Undefined, message |-> Undefined]
Rejected(c, m) == [state |-> "rejected", value |-> Undefined, code |-> c, message |-> m]

\* A promise settles once: resolve or reject on a settled promise changes nothing
Settle(p, outcome) == IF p.state = "pending" THEN outcome ELSE p

hasWs == ws # None

\* A deadline timer: setTimeout(callback, delay) and the time it has run
NoTimer == [state |-> "none", delay |-> 0, elapsed |-> 0]
SetTimeout(delay) == [state |-> "armed", delay |-> delay, elapsed |-> 0]

\* clearTimeout: cancels a timer that has not fired yet
ClearTimeout(t) == IF t.state = "armed" THEN [state |-> "cleared", delay |-> 0, elapsed |-> 0] ELSE t

\* WebSocket.close(): an open socket starts its closing handshake
WsClose(c) == [wsState EXCEPT ![c] = IF @ = "open" THEN "closing" ELSE @]

\* What a response, a timeout or close transmits for the call it settles:
\* nothing, the request is not sent again
ResendOnTimeout(id, by) == IF by = "timeout" /\ hasWs THEN ws ELSE None

Resend(id, by) == None

\* One invocation of a call's resolve or reject callback
Invoke(id, outcome, by) ==
    /\ promise' = [promise EXCEPT ![id] = Settle(@, outcome)]
    /\ settles' = [settles EXCEPT ![id] = @ + 1]
    /\ settledBy' = [settledBy EXCEPT ![id] = IF settles[id] = 0 THEN by ELSE @]
    /\ sentOn' = [sentOn EXCEPT ![id] = Resend(id, by)]

----------------------------------------------------------------------------
(* Part I: actions *)

InitRpc ==
    /\ ws = None
    /\ wsState = [c \in Conns |-> "unborn"]
    /\ listeners = {}
    /\ pendingRequests = {}
    /\ timer = [i \in Ids |-> NoTimer]
    /\ promise = [i \in Ids |-> Unissued]
    /\ settles = [i \in Ids |-> 0]
    /\ settledBy = [i \in Ids |-> "none"]
    /\ sentOn = [i \in Ids |-> None]
    /\ nextId = 0
    /\ lastWarned = None

\* index.ts: wss.on("connection", ...) followed by the Context.ws setter
CloseExistingNot == wsState

CloseExisting == IF hasWs THEN WsClose(ws) ELSE wsState

Connection(c) ==
    /\ wsState[c] = "unborn"
    /\ \A d \in Conns : d < c => wsState[d] # "unborn"
    /\ wsState' = [CloseExisting EXCEPT ![c] = "open"]
    /\ ws' = c
    /\ listeners' = listeners \cup {c}
    /\ UNCHANGED <<pendingRequests, timer, promise, settles, settledBy, sentOn,
                   nextId, lastWarned>>
    /\ UNCHANGED nonRpcVars

\* What this.ws.send(...) does: the getter throws without a socket; an open
\* socket transmits; on a socket that is no longer open the ws library either
\* throws or drops the frame, depending on its version.
SendOutcomes ==
    IF ~hasWs THEN {"throwNoWs"}
    ELSE IF wsState[ws] = "open" THEN {"sent"}
    ELSE {"dropped", "throwNotConnected", "throwOther"}

SendError(send) ==
    IF send = "throwOther"
    THEN Rejected(Undefined, "WebSocket is not open")
    ELSE Rejected(Undefined, noConnectionMessage)

\* The catch of sendRpcRequest: clearTimeout(timer)
SendClearNot(t) == t

SendClear(t) == ClearTimeout(t)

\* Context.sendRpcRequest: what the call does to the Context
sendRpcRequestCall(timeoutMs, send) ==
    /\ nextId < MaxCalls
    /\ send \in SendOutcomes
    /\ LET id == nextId + 1 IN
       /\ nextId' = id
       /\ IF send \in {"sent", "dropped"}
          THEN /\ timer' = [timer EXCEPT ![id] = SetTimeout(timeoutMs)]
               /\ pendingRequests' = pendingRequests \cup {id}
               /\ promise' = [promise EXCEPT ![id] = Pending]
               /\ sentOn' = [sentOn EXCEPT ![id] = IF send = "sent" THEN ws ELSE None]
               /\ UNCHANGED <<settles, settledBy>>
          ELSE /\ timer' = [timer EXCEPT ![id] = SendClear(SetTimeout(timeoutMs))]
               /\ pendingRequests' = (pendingRequests \cup {id}) \ {id}
               /\ promise' = [promise EXCEPT ![id] = Settle(Pending, SendError(send))]
               /\ settles' = [settles EXCEPT ![id] = @ + 1]
               /\ settledBy' = [settledBy EXCEPT ![id] = "send"]
               /\ UNCHANGED sentOn
    /\ UNCHANGED <<ws, wsState, listeners, lastWarned>>

\* Context.sendRpcRequest
sendRpcRequest(timeoutMs, send) ==
    /\ sendRpcRequestCall(timeoutMs, send)
    /\ UNCHANGED nonRpcVars

\* The outcome a response carries
ResponseOutcome(response) ==
    IF response.error # NoError
    THEN Rejected(response.error.code, response.error.message)
    ELSE Fulfilled(response.result)

\* Context.handleResponse
OldestPending == CHOOSE i \in pendingRequests : \A j \in pendingRequests : i <= j
LookupOldest(response) == IF pendingRequests = {} THEN response.id ELSE OldestPending

Lookup(response) == response.id

KnownAlways(id) == TRUE

Known(id) == id \in pendingRequests

ResponseClearNot(t) == t

ResponseClear(t) == ClearTimeout(t)

handleResponse(response) ==
    LET id == Lookup(response) IN
    IF ~Known(id)
    THEN /\ lastWarned' = response.id
         /\ UNCHANGED <<pendingRequests, timer, promise, settles, settledBy, sentOn>>
    ELSE /\ timer' = [timer EXCEPT ![id] = ResponseClear(@)]
         /\ pendingRequests' = pendingRequests \ {id}
         /\ Invoke(id, ResponseOutcome(response), "response")
         /\ UNCHANGED lastWarned

\* The "message" listener of the ws setter, on a message that parses
ReceiveMessage(c, response) ==
    /\ c \in listeners
    /\ wsState[c] \in {"open", "closing"}
    /\ handleResponse(response)
    /\ UNCHANGED <<ws, wsState, listeners, nextId>>
    /\ UNCHANGED nonRpcVars

\* The "message" listener on a message JSON.parse rejects: logged, nothing else
ReceiveGarbage(c) ==
    /\ c \in listeners
    /\ wsState[c] \in {"open", "closing"}
    /\ UNCHANGED vars

\* A timer is due once it has run for its delay
TimerDueAlways(t) == TRUE

TimerDue(t) == t.elapsed = t.delay

\* The entries the timer callback deletes: this.pendingRequests.delete(id)
ExpiredAll(id) == pendingRequests

Expired(id) == {id}

\* The setTimeout callback of sendRpcRequest
TimerFire(id) ==
    /\ timer[id].state = "armed"
    /\ TimerDue(timer[id])
    /\ timer' = [timer EXCEPT ![id].state = "fired"]
    /\ pendingRequests' = pendingRequests \ Expired(id)
    /\ Invoke(id, Rejected("TIMEOUT", "Request timed out"), "timeout")
    /\ UNCHANGED <<ws, wsState, listeners, nextId, lastWarned>>
    /\ UNCHANGED nonRpcVars

\* Time passes, no further than the next deadline of an armed timer
Armed == {i \in Ids : timer[i].state = "armed"}
Remaining(i) == timer[i].delay - timer[i].elapsed
TickStep == CHOOSE d \in {ShortTimeoutMs} \cup {Remaining(i) : i \in Armed} :
                \A i \in Armed : d <= Remaining(i) /\ d <= ShortTimeoutMs

Tick ==
    /\ Armed # {}
    /\ TickStep > 0
    /\ timer' = [i \in Ids |-> IF i \in Armed
                               THEN [timer[i] EXCEPT !.elapsed = @ + TickStep] ELSE timer[i]]
    /\ UNCHANGED <<ws, wsState, listeners, pendingRequests, promise, settles, settledBy,
                   sentOn, nextId, lastWarned>>
    /\ UNCHANGED nonRpcVars

\* Context.close
CloseOutcome == Rejected(Undefined, "Connection closed")
CloseClear(t) == ClearTimeout(t)

CloseTableKeep == pendingRequests

CloseTable == {}

close ==
    /\ hasWs
    /\ timer' = [i \in Ids |-> IF i \in pendingRequests THEN CloseClear(timer[i]) ELSE timer[i]]
    /\ promise' = [i \in Ids |-> IF i \in pendingRequests
                                 THEN Settle(promise[i], CloseOutcome) ELSE promise[i]]
    /\ settles' = [i \in Ids |-> IF i \in pendingRequests THEN settles[i] + 1 ELSE settles[i]]
    /\ settledBy' = [i \in Ids |-> IF i \in pendingRequests /\ settles[i] = 0
                                   THEN "close" ELSE settledBy[i]]
    /\ pendingRequests' = CloseTable
    /\ sentOn' = [i \in Ids |-> None]
    /\ wsState' = WsClose(ws)
    /\ UNCHANGED <<ws, listeners, nextId, lastWarned>>
    /\ UNCHANGED nonRpcVars

\* Context.close without a socket returns at once
closeNoWs ==
    /\ ~hasWs
    /\ UNCHANGED vars

\* A socket reaches CLOSED: the peer went away or the closing handshake ended
SocketClosed(c) ==
    /\ wsState[c] \in {"open", "closing"}
    /\ wsState' = [wsState EXCEPT ![c] = "closed"]
    /\ UNCHANGED <<ws, listeners, pendingRequests, timer, promise, settles, settledBy,
                   sentOn, nextId, lastWarned>>
    /\ UNCHANGED nonRpcVars

NextRpc ==
    \/ \E c \in Conns : Connection(c)
    \/ \E t \in Timeouts, s \in {"sent", "dropped", "throwNoWs", "throwNotConnected", "throwOther"} :
          sendRpcRequest(t, s)
    \/ \E c \in Conns, r \in Responses : ReceiveMessage(c, r)
    \/ \E c \in Conns : ReceiveGarbage(c)
    \/ \E i \in Ids : TimerFire(i)
    \/ Tick
    \/ close
    \/ closeNoWs
    \/ \E c \in Conns : SocketClosed(c)

\* SpecRpc is defined after Part II, whose variables it leaves alone

----------------------------------------------------------------------------
(* Part I: properties *)

ConnectionClosed == Rejected(Undefined, "Connection closed")
TimedOut == Rejected("TIMEOUT", "Request timed out")

\* C2: a call whose deadline timer has fired was rejected with code TIMEOUT
\* after exactly its configured timeout, and its id is not in the
\* pending-request table; while a call is pending its timer is armed and has
\* not run past its delay.
C2_TimeoutRejects ==
    \A i \in Ids :
        /\ timer[i].state = "fired" =>
              /\ promise[i] = TimedOut
              /\ i \notin pendingRequests
              /\ timer[i].delay \in Timeouts
              /\ timer[i].elapsed = timer[i].delay
        /\ i \in pendingRequests =>
              /\ timer[i].state = "armed"
              /\ timer[i].elapsed <= timer[i].delay

C2_Witness ==
    \E i \in Ids : timer[i].state = "fired" /\ timer[i].delay = DefaultTimeoutMs
                   /\ promise[i] = TimedOut

\* C3 (as claimed): when a connection is accepted while one is current, the
\* old socket is closed and every request pending on it is rejected with
\* "Connection closed".
C3_SupersedeRejectsPending ==
    [][\A c \in Conns :
          (Connection(c) /\ hasWs) =>
              /\ wsState'[ws] # "open"
              /\ \A i \in pendingRequests :
                    sentOn[i] = ws => promise'[i] = ConnectionClosed]_vars

\* C6: a call is settled by a response only in a step that receives a
\* response carrying the call's own id, and then with that response's result
\* or error; receiving a response changes no call but the one it names.
C6_SettledByOwnResponse ==
    [][/\ \A i \in Ids :
             (promise[i].state = "pending" /\ promise'[i].state # "pending"
                 /\ settledBy'[i] = "response") =>
             \E c \in Conns, r \in Responses :
                 /\ r.id = i
                 /\ ReceiveMessage(c, r)
                 /\ promise'[i] = IF r.error # NoError
                                  THEN Rejected(r.error.code, r.error.message)
                                  ELSE Fulfilled(r.result)
       /\ \A j \in Ids :
             (promise'[j] # promise[j] \/ settles'[j] # settles[j]) =>
                 ~ \E c \in Conns, r \in Responses : r.id # j /\ ReceiveMessage(c, r)]_vars

C6_Witness ==
    /\ promise[1].state = "pending"
    /\ promise[2] = Fulfilled("r1")
    /\ settledBy[2] = "response"

\* C7: resolve or reject is invoked exactly once per call: never twice, and
\* not at all only while the call is in the pending-request table with an
\* armed timer; the timer of a call a response settled is cancelled and
\* stays so; a response for a call the timeout rejected is dropped as an
\* unknown id.
C7_Once ==
    \A i \in Ids :
        /\ settles[i] <= 1
        /\ (promise[i].state = "pending") = (settles[i] = 0 /\ i <= nextId)
        /\ (promise[i].state = "pending") = (i \in pendingRequests)
        /\ i \in pendingRequests => timer[i].state = "armed"
        /\ settledBy[i] = "response" => timer[i].state = "cleared"

C7_Step ==
    /\ \A i \in Ids : timer[i].state = "cleared" => timer'[i].state = "cleared"
    /\ \A i \in Ids : settles[i] = 1 => promise'[i] = promise[i]
    /\ \A c \in Conns, r \in Responses :
          (settledBy[r.id] = "timeout" /\ ReceiveMessage(c, r)) =>
              /\ lastWarned' = r.id
              /\ UNCHANGED <<pendingRequests, timer, promise, settles, settledBy>>

C7_SettledExactlyOnce == [](C7_Once) /\ [][C7_Step]_vars

C7_Witness ==
    \E i, j \in Ids :
        /\ settledBy[i] = "timeout" /\ lastWarned = i
        /\ settledBy[j] = "response"

\* C8: receiving a response whose id is not in the pending-request table
\* settles no call, cancels no timer and leaves the table unchanged.
C8_UnknownIgnored ==
    [][\A c \in Conns, r \in Responses :
          (r.id \notin pendingRequests /\ ReceiveMessage(c, r)) =>
              UNCHANGED <<pendingRequests, timer, promise, settles, settledBy>>]_vars

C8_Witness ==
    \E i, j \in Ids :
        /\ lastWarned = i /\ promise[i].state = "unissued"
        /\ j \in pendingRequests

\* C9: Context.close rejects every pending call with "Connection closed",
\* cancels its timer and empties the table (without a socket, where close
\* returns at once, the table is empty already); a call close rejected is
\* never settled again.
C9_Step ==
    /\ close =>
          /\ pendingRequests' = {}
          /\ \A i \in pendingRequests :
                /\ promise'[i] = ConnectionClosed
                /\ timer'[i].state = "cleared"
    /\ \A i \in Ids :
          settledBy[i] = "close" =>
              /\ promise'[i] = promise[i]
              /\ settles'[i] = settles[i]
              /\ timer'[i] = timer[i]

C9_CloseRejectsAll == [](~hasWs => pendingRequests = {}) /\ [][C9_Step]_vars

C9_Witness ==
    \E i, j \in Ids :
        /\ i # j
        /\ settledBy[i] = "close" /\ settledBy[j] = "close"
        /\ pendingRequests = {}
        /\ lastWarned = i

\* C10: at most one accepted socket is open, and an open socket is the
\* current one: accepting a connection closes the previous one first.
C10_OneLive ==
    /\ Cardinality({c \in Conns : wsState[c] = "open"}) <= 1
    /\ \A c \in Conns : wsState[c] = "open" => ws = c

C10_Witness ==
    /\ ws = 2
    /\ wsState[2] = "open"
    /\ wsState[1] = "closing"

----------------------------------------------------------------------------
\* C11: the session is Idle or Connected: once the current socket has left
\* the open state (it disconnected, or the session was closed) the session
\* no longer reports a connection, and a call is written to a socket only
\* while that socket is the current one and open.
C11_Sent ==
    \A i \in Ids :
        (sentOn[i] = None /\ sentOn'[i] # None) =>
            (sentOn'[i] = ws /\ wsState[ws] = "open")

C11_IdleAfterDisconnect == [](hasWs => wsState[ws] = "open") /\ [][C11_Sent]_vars

----------------------------------------------------------------------------
\* C22: a request is transmitted only in the step that makes its call, at
\* most once; a response, a timeout, a failed send or close never puts the
\* request of an earlier call on a connection again.
C22_Step ==
    \A i \in Ids :
        (sentOn'[i] # sentOn[i] /\ sentOn'[i] # None) =>
            /\ promise[i].state = "unissued"
            /\ nextId' = i
            /\ nextId = i - 1
            /\ \E t \in Timeouts : sendRpcRequest(t, "sent")

C22_NoRetry == [](\A i \in Ids : i > nextId => sentOn[i] = None) /\ [][C22_Step]_vars

C22_Witness ==
    \E i, j \in Ids :
        /\ settledBy[i] = "timeout"
        /\ settledBy[j] = "response" /\ promise[j].state = "rejected"
        /\ \A k \in Ids : sentOn[k] = None

\* C27: when the timer of one call fires, that call alone is rejected and
\* removed from the table; every other pending call stays in the table with
\* its promise pending and its timer armed and untouched.
C27_Step ==
    \A i \in Ids :
        TimerFire(i) =>
            /\ pendingRequests' = pendingRequests \ {i}
            /\ promise'[i] = TimedOut
            /\ \A j \in Ids \ {i} :
                  /\ promise'[j] = promise[j]
                  /\ timer'[j] = timer[j]
                  /\ settles'[j] = settles[j]
                  /\ j \in pendingRequests =>
                        promise'[j].state = "pending" /\ timer'[j].state = "armed"

C27_TimeoutsIndependent == [][C27_Step]_vars

C27_Witness ==
    \E i, j \in Ids :
        /\ timer[i].state = "fired"
        /\ j \in pendingRequests
        /\ timer[j].elapsed >= timer[i].delay

\* C28: a call whose send throws (no socket set, or the socket refuses) is
\* rejected in the same step with the send's error, never with TIMEOUT; its
\* timer is cancelled and stays so, and the table is as it was before the call.
C28_Step ==
    /\ \A t \in Timeouts, s \in {"throwNoWs", "throwNotConnected", "throwOther"} :
          sendRpcRequest(t, s) =>
              /\ pendingRequests' = pendingRequests
              /\ promise'[nextId'] = SendError(s)
              /\ timer'[nextId'].state = "cleared"
    /\ \A i \in Ids :
          settledBy[i] = "send" =>
              /\ promise'[i] = promise[i]
              /\ timer'[i] = timer[i]
              /\ settles'[i] = settles[i]

C28_SendFailureCleansUp ==
    [](\A i \in Ids : settledBy[i] = "send" =>
            /\ i \notin pendingRequests
            /\ timer[i].state = "cleared"
            /\ promise[i].state = "rejected" /\ promise[i].code # "TIMEOUT")
        /\ [][C28_Step]_vars

C28_Witness ==
    \E i, j \in Ids :
        /\ j < i
        /\ settledBy[i] = "send"
        /\ j \in pendingRequests

----------------------------------------------------------------------------
(* Part II: the page.  The pages modelled carry no ARIA attributes other     *)
(* than aria-owns, no labels and no slot elements, and their text has no     *)
(* white space: trimming or normalising a text returns it.  Every element    *)
(* has an id, which aria-owns names.                                         *)

Body == 0
Elems == 1..(MaxElems + 1)

\* The elements the scripts of the smaller pages use
Few == 1..MaxElems
Nodes == {Body} \cup Elems
NoRef == <<>>
NoElem == 0

\* The elements a page script can create: tag name and own text
TagOf(e) == CASE e = 1 -> "button" [] e = 2 -> "button" [] e = 3 -> "a" [] OTHER -> "div"
TextOf(e) == CASE e = 1 -> "OK" [] e = 2 -> "OK" [] e = 3 -> "Home" [] OTHER -> "x"
HasHref(e) == TagOf(e) = "a"

Tags == {TagOf(e) : e \in Elems}

RECURSIVE Concat(_)
Concat(ss) == IF ss = <<>> THEN <<>> ELSE Head(ss) \o Concat(Tail(ss))

Range(q) == {q[k] : k \in 1..Len(q)}

\* Document order (pre-order) of the subtree of a node, the node included
RECURSIVE Subtree(_)
Subtree(n) == <<n>> \o Concat([k \in 1..Len(children[n]) |-> Subtree(children[n][k])])

Attached(e) == e \in Range(Subtree(Body))
Parents(e) == {n \in Nodes : e \in Range(children[n])}

\* Node.textContent: the text of the element and its descendants, in order
TextContent(e) == [k \in 1..Len(Subtree(e)) |-> TextOf(Subtree(e)[k])]

----------------------------------------------------------------------------
(* aria-snapshot.ts *)

\* Reference strings: "e" followed by the counter
Ref(n) == <<"e", n>>

\* getAttribute returns null for an attribute the element does not have; a
\* role or alt attribute the element has is one word or the empty string
NoAttr == "null"
RoleValues == {NoAttr, "dialog", "img"}
AltValues == {NoAttr, "", "logo"}

\* What JavaScript takes for true of an attribute value
Truthy(value) == value \notin {NoAttr, ""}

\* getAriaRole: the role attribute if it has a value, else the implicit role
getAriaRole(e) ==
    IF Truthy(elemAttrs[e].role) THEN elemAttrs[e].role
    ELSE CASE TagOf(e) = "a" -> IF HasHref(e) THEN "link" ELSE "null"
           [] TagOf(e) = "button" -> "button"
           [] OTHER -> "null"

interactiveRoles ==
    {"button", "link", "textbox", "checkbox", "radio", "combobox", "searchbox", "slider",
     "spinbutton", "menuitem", "menuitemcheckbox", "menuitemradio", "tab", "switch",
     "option", "treeitem"}

structuralRoles ==
    {"heading", "navigation", "main", "banner", "contentinfo", "complementary", "region",
     "article", "form", "search"}

\* A filter that lets every role through
IncludeAny(role, e) == TRUE

\* shouldIncludeElement
shouldIncludeElement(role, e) ==
    \/ role \in interactiveRoles
    \/ role \in structuralRoles
    \/ (role = "img" /\ Truthy(elemAttrs[e].alt))

isHidden(e) == e \in hidden

\* getAccessibleName of the snapshot, without ARIA attributes, labels, title
\* or placeholder: the text content (cut at 100 characters for other roles)
snapshotName(e) == TextContent(e)

\* The children of the shadow root first
ShadowFirst(n) == IF n = Body THEN children[n] ELSE shadow[n] \o children[n]

\* getChildren, without slots: the child elements, then those of the shadow root
getChildren(n) == IF n = Body THEN children[n] ELSE children[n] \o shadow[n]

\* document.getElementById(id) for the id aria-owns names: an element of the
\* document tree, NoElem standing for null
getElementById(id) == IF id # NoElem /\ Attached(id) THEN id ELSE NoElem

\* The element walkAriaTree goes on to after the children of n
Owned(n) == getElementById(owns[n])

\* walkAriaTree: the elements it emits a row for, in the order it visits them
RECURSIVE walkAriaTree(_)
walkAriaTree(n) ==
    IF n # Body /\ isHidden(n) THEN <<>>
    ELSE (IF n # Body /\ getAriaRole(n) # "null" /\ shouldIncludeElement(getAriaRole(n), n)
          THEN <<n>> ELSE <<>>)
         \o Concat([k \in 1..Len(getChildren(n)) |-> walkAriaTree(getChildren(n)[k])])
         \o (IF Owned(n) # NoElem THEN walkAriaTree(Owned(n)) ELSE <<>>)

\* The depth of recursion the stack has room for: more than any walk of a
\* page without a cycle needs
StackLimit == 2 * (MaxElems + 1)

\* walkAriaTree with the stack it runs on: the elements it emits a row for
\* until it returns or, depth calls deep, exhausts the stack (a RangeError)
RECURSIVE walkDeep(_, _)
RECURSIVE walkEach(_, _, _)
walkDeep(n, depth) ==
    IF depth = 0 THEN [rows |-> <<>>, overflow |-> TRUE]
    ELSE IF n # Body /\ isHidden(n) THEN [rows |-> <<>>, overflow |-> FALSE]
    ELSE walkEach(getChildren(n) \o (IF Owned(n) # NoElem THEN <<Owned(n)>> ELSE <<>>),
                  depth - 1,
                  IF n # Body /\ getAriaRole(n) # "null"
                        /\ shouldIncludeElement(getAriaRole(n), n)
                  THEN <<n>> ELSE <<>>)

walkEach(q, depth, acc) ==
    IF q = <<>> THEN [rows |-> acc, overflow |-> FALSE]
    ELSE LET r == walkDeep(Head(q), depth) IN
         IF r.overflow THEN [rows |-> acc \o r.rows, overflow |-> TRUE]
         ELSE walkEach(Tail(q), depth, acc \o r.rows)

\* The walk from the body returns before the stack is exhausted
WalkReturns == ~walkDeep(Body, StackLimit).overflow

\* getOrCreateRef: the table and the counter after the call
AlwaysMint(tab, e) ==
    [counter |-> tab.counter + 1,
     map |-> [tab.map EXCEPT ![e] = Ref(tab.counter + 1)]]

getOrCreateRef(tab, e) ==
    IF tab.map[e] # NoRef THEN tab
    ELSE [counter |-> tab.counter + 1,
          map |-> [tab.map EXCEPT ![e] = Ref(tab.counter + 1)]]

\* The walk's calls of getOrCreateRef, in order: table, counter and rows
RECURSIVE emitRows(_, _, _)
emitRows(order, tab, rows) ==
    IF order = <<>> THEN [tab |-> tab, rows |-> rows]
    ELSE LET e == Head(order)
             t == getOrCreateRef(tab, e)
         IN emitRows(Tail(order), t,
                     Append(rows, [ref |-> t.map[e], role |-> getAriaRole(e),
                                   name |-> snapshotName(e), states |-> <<>>, el |-> e]))

\* generateAriaSnapshot resets the counter before the walk
ResetCounter == 0

NoSnapshot == [taken |-> FALSE, elements |-> <<>>]

\* generateAriaSnapshot; when the walk exhausts the stack the call throws and
\* returns no snapshot, the references minted so far stay
generateAriaSnapshot ==
    LET deep == walkDeep(Body, StackLimit)
        w == emitRows(deep.rows, [counter |-> ResetCounter, map |-> elementRefMap], <<>>)
    IN /\ elementRefCounter' = w.tab.counter
       /\ elementRefMap' = w.tab.map
       /\ lastSnapshot' = IF deep.overflow THEN lastSnapshot
                          ELSE [taken |-> TRUE, elements |-> w.rows]
       /\ UNCHANGED <<children, hidden, gone>>
       /\ UNCHANGED nonDomVars

----------------------------------------------------------------------------
(* interactions.ts *)

NoKey == Undefined
NoRefKey == <<>>
NameUndefined == <<Undefined>>

ByRef(r) == [ref |-> r, css |-> NoKey, role |-> NoKey, name |-> NameUndefined]
ByCss(c) == [ref |-> NoRefKey, css |-> c, role |-> NoKey, name |-> NameUndefined]
ByRole(r, n) == [ref |-> NoRefKey, css |-> NoKey, role |-> r, name |-> n]
NoSelector == [ref |-> NoRefKey, css |-> NoKey, role |-> NoKey, name |-> NameUndefined]

Selectors ==
    {ByRef(Ref(n)) : n \in Elems}
        \cup {ByCss(t) : t \in Tags}
        \cup {ByRole(r, n) : r \in {"button", "link"}, n \in {NameUndefined, <<"OK">>}}

\* What a call returns or throws
Returned(e) == [kind |-> "element", el |-> e, code |-> Undefined]
Threw(code) == [kind |-> "error", el |-> NoElem, code |-> code]
ReturnedNull == [kind |-> "null", el |-> NoElem, code |-> Undefined]

\* The attached elements, in document order
DocumentOrder == SelectSeq(Subtree(Body), LAMBDA n : n # Body)

\* getElementRole of interactions.ts: the role attribute if it has a value,
\* else the implicit role
getElementRole(e) ==
    IF Truthy(elemAttrs[e].role) THEN elemAttrs[e].role
    ELSE CASE TagOf(e) = "button" -> "button"
           [] TagOf(e) = "a" -> "link"
           [] OTHER -> "null"

\* getAccessibleName of interactions.ts: textContent.trim()
getAccessibleName(e) == TextContent(e)

\* findByRole: a TreeWalker over document.body
findByRole(role, name) ==
    SelectSeq(DocumentOrder,
              LAMBDA e : /\ getElementRole(e) = role
                         /\ (name = NameUndefined \/ getAccessibleName(e) = name))

\* document.querySelectorAll with a type selector
querySelectorAll(css) == SelectSeq(DocumentOrder, LAMBDA e : TagOf(e) = css)

\* A lookup that walks the document instead of the table: the n-th element
LiveLookup(ref) ==
    IF ref[2] <= Len(DocumentOrder) THEN Returned(DocumentOrder[ref[2]]) ELSE ReturnedNull

\* findElementByRef: elementRefMap is a WeakMap, which has no entries():
\* the call elementRefMap.entries() throws a TypeError
findElementByRef(ref) == Threw("TypeError")

\* Selector objects with any combination of the keys
MixedSelectors ==
    {[ref |-> r, css |-> c, role |-> ro, name |-> n] :
        r \in {NoRefKey, Ref(1)}, c \in {NoKey, "button", "div"},
        ro \in {NoKey, "button"}, n \in {NameUndefined, <<"OK">>}}

\* The candidates of every strategy the selector has a key for
MergedCandidates(selector) ==
    (IF selector.css # NoKey THEN querySelectorAll(selector.css) ELSE <<>>)
        \o (IF selector.role # NoKey THEN findByRole(selector.role, selector.name) ELSE <<>>)

\* findElement
Candidates(selector) ==
    IF selector.ref # NoRefKey
    THEN IF findElementByRef(selector.ref).kind = "element"
         THEN <<findElementByRef(selector.ref).el>> ELSE <<>>
    ELSE IF selector.css # NoKey THEN querySelectorAll(selector.css)
    ELSE IF selector.role # NoKey THEN findByRole(selector.role, selector.name)
    ELSE <<>>

findElement(selector) ==
    IF selector.ref # NoRefKey /\ findElementByRef(selector.ref).kind = "error"
    THEN findElementByRef(selector.ref)
    ELSE IF Len(Candidates(selector)) = 0 THEN Threw("ELEMENT_NOT_FOUND")
    ELSE IF Len(Candidates(selector)) > 1 THEN Threw("ELEMENT_AMBIGUOUS")
    ELSE Returned(Candidates(selector)[1])

\* A resolution reads the page and the table and changes neither
FindElement(selector) ==
    /\ findElement(selector).kind \in {"element", "error"}
    /\ UNCHANGED vars

----------------------------------------------------------------------------
(* Part II: the page's own steps *)

Without(q, e) == SelectSeq(q, LAMBDA x : x # e)

\* The nodes the page scripts append to: the body and the first element
Containers == {Body, 1}

\* parent.appendChild(e): a detached element becomes the last child of a node
\* of the document
AppendChild(parent, e) ==
    /\ e \notin gone
    /\ ~Attached(e)
    /\ \A n \in Elems : e \notin Range(shadow[n])
    /\ parent = Body \/ Attached(parent)
    /\ children' = [children EXCEPT ![parent] = Append(@, e)]
    /\ UNCHANGED <<hidden, gone, elementRefCounter, elementRefMap, lastSnapshot>>
    /\ UNCHANGED nonDomVars

\* e.remove(), for an element without children: e leaves the document
RemoveChild(e) ==
    /\ Attached(e)
    /\ children[e] = <<>>
    /\ children' = [n \in Nodes |-> Without(children[n], e)]
    /\ UNCHANGED <<hidden, gone, elementRefCounter, elementRefMap, lastSnapshot>>
    /\ UNCHANGED nonDomVars

\* An attached element becomes hidden or visible
SetHidden(e) ==
    /\ Attached(e)
    /\ hidden' = IF e \in hidden THEN hidden \ {e} ELSE hidden \cup {e}
    /\ UNCHANGED <<children, gone, elementRefCounter, elementRefMap, lastSnapshot>>
    /\ UNCHANGED nonDomVars

\* A detached subtree nothing refers to is collected; the WeakMap drops its keys
Collect(e) ==
    /\ e \notin gone
    /\ ~Attached(e)
    /\ Parents(e) = {}
    /\ LET dead == Range(Subtree(e)) IN
       /\ gone' = gone \cup dead
       /\ children' = [n \in Nodes |-> IF n \in dead THEN <<>> ELSE children[n]]
       /\ hidden' = hidden \ dead
       /\ elementRefMap' = [x \in Elems |-> IF x \in dead THEN NoRef ELSE elementRefMap[x]]
    /\ UNCHANGED <<elementRefCounter, lastSnapshot>>
    /\ UNCHANGED nonDomVars

\* setAttribute("aria-owns", id) / removeAttribute("aria-owns") on the body
\* or on an element
SetOwns(n, id) ==
    /\ n \notin gone
    /\ owns' = [owns EXCEPT ![n] = id]
    /\ owns' # owns
    /\ UNCHANGED <<shadow, elemAttrs>>
    /\ UNCHANGED <<domVars, nonWalkVars>>

\* host.attachShadow(...).appendChild(e): a detached element becomes the
\* last child of the shadow root of an element of the document
AppendShadow(host, e) ==
    /\ e \notin gone
    /\ e # host
    /\ ~Attached(e)
    /\ \A n \in Elems : e \notin Range(shadow[n])
    /\ Attached(host)
    /\ shadow' = [shadow EXCEPT ![host] = Append(@, e)]
    /\ UNCHANGED <<owns, elemAttrs>>
    /\ UNCHANGED <<domVars, nonWalkVars>>

\* e.setAttribute("role", value), removeAttribute when the value is NoAttr
SetRole(e, value) ==
    /\ e \notin gone
    /\ elemAttrs' = [elemAttrs EXCEPT ![e].role = value]
    /\ elemAttrs' # elemAttrs
    /\ UNCHANGED <<owns, shadow>>
    /\ UNCHANGED <<domVars, nonWalkVars>>

\* e.setAttribute("alt", value), removeAttribute when the value is NoAttr
SetAlt(e, value) ==
    /\ e \notin gone
    /\ elemAttrs' = [elemAttrs EXCEPT ![e].alt = value]
    /\ elemAttrs' # elemAttrs
    /\ UNCHANGED <<owns, shadow>>
    /\ UNCHANGED <<domVars, nonWalkVars>>

InitDom ==
    /\ children = [n \in Nodes |-> <<>>]
    /\ hidden = {}
    /\ gone = {}
    /\ elementRefCounter = 0
    /\ elementRefMap = [e \in Elems |-> NoRef]
    /\ lastSnapshot = NoSnapshot

NextDom ==
    \/ generateAriaSnapshot
    \/ \E sel \in Selectors \cup MixedSelectors : FindElement(sel)
    \/ \E parent \in Containers, e \in Few : AppendChild(parent, e)
    \/ \E e \in Few : RemoveChild(e)
    \/ \E e \in Few : SetHidden(e)
    \/ \E e \in Few : Collect(e)

----------------------------------------------------------------------------
(* Part II: properties *)

\* The elements a selector matches: by ref, the live elements the table holds
\* that reference for; by CSS pattern or by role and name, the elements of the
\* document that fit
Matches(selector) ==
    IF selector.ref # NoRefKey
    THEN {e \in Elems \ gone : elementRefMap[e] = selector.ref}
    ELSE IF selector.css # NoKey
    THEN {e \in Elems : Attached(e) /\ TagOf(e) = selector.css}
    ELSE {e \in Elems : /\ Attached(e)
                        /\ getElementRole(e) = selector.role
                        /\ (selector.name = NameUndefined
                              \/ getAccessibleName(e) = selector.name)}

\* C1: for any selector (by ref, by CSS pattern, by role and name) and any
\* page, findElement returns the one element the selector matches, fails with
\* ELEMENT_NOT_FOUND when it matches none, and fails with ELEMENT_AMBIGUOUS
\* when it matches more than one; it never picks one among several.
C1_ExactlyOneOrFail ==
    \A selector \in Selectors :
        /\ Cardinality(Matches(selector)) = 0 =>
              findElement(selector) = Threw("ELEMENT_NOT_FOUND")
        /\ Cardinality(Matches(selector)) = 1 =>
              \E e \in Matches(selector) : findElement(selector) = Returned(e)
        /\ Cardinality(Matches(selector)) > 1 =>
              findElement(selector) = Threw("ELEMENT_AMBIGUOUS")

\* C4: after any sequence of snapshots and page changes, no two distinct
\* elements hold the same reference.
C4_RefsUnique ==
    \A a, b \in Elems :
        (a # b /\ elementRefMap[a] # NoRef) => elementRefMap[a] # elementRefMap[b]

\* C5: an element exposed in two successive snapshots is reported with the
\* same reference in both, whatever was added, removed or hidden in between.
C5_Step ==
    \A k \in 1..Len(lastSnapshot.elements), l \in 1..Len(lastSnapshot'.elements) :
        lastSnapshot.elements[k].el = lastSnapshot'.elements[l].el =>
            lastSnapshot.elements[k].ref = lastSnapshot'.elements[l].ref

C5_StableRef == [][C5_Step]_vars

\* Element 2 got the second reference of a snapshot that exposed element 1
\* before it, and the latest snapshot, taken with element 1 out of the
\* document, exposes element 2 alone and reports that reference again
C5_Witness ==
    /\ lastSnapshot.taken
    /\ Len(lastSnapshot.elements) = 1
    /\ lastSnapshot.elements[1].el = 2
    /\ lastSnapshot.elements[1].ref = Ref(2)
    /\ elementRefMap[1] = Ref(1)
    /\ ~Attached(1)
    /\ elementRefCounter = ResetCounter

----------------------------------------------------------------------------
\* A step that leaves the page as it is
PageUnchanged == children' = children /\ hidden' = hidden /\ gone' = gone

\* C14: a by-ref selector whose reference a live element holds resolves to
\* an element, and to the same element again after any step that does not
\* change the page, a snapshot included.
C14_Step ==
    \A n \in Elems :
        ((\E e \in Elems \ gone : elementRefMap[e] = Ref(n)) /\ PageUnchanged) =>
            /\ findElement(ByRef(Ref(n))).kind = "element"
            /\ findElement(ByRef(Ref(n)))' = findElement(ByRef(Ref(n)))

C14_SameElementTwice == [][C14_Step]_vars

\* C15: resolution by reference returns only an element that a snapshot
\* minted that reference for; an element no snapshot exposed is never
\* returned.
C15_OnlyMinted ==
    \A n \in Elems :
        findElement(ByRef(Ref(n))).kind = "element" =>
            elementRefMap[findElement(ByRef(Ref(n))).el] = Ref(n)

\* A snapshot was taken, and the visible first element of the document was
\* appended after it and has no reference: no by-ref selector returns it
C15_Witness ==
    /\ lastSnapshot.taken
    /\ Len(lastSnapshot.elements) = 1
    /\ \E e \in Elems :
          /\ children[Body] # <<>> /\ children[Body][1] = e
          /\ ~isHidden(e)
          /\ elementRefMap[e] = NoRef
          /\ \A n \in Elems : findElement(ByRef(Ref(n))) # Returned(e)

----------------------------------------------------------------------------
\* The selector with the first of the keys ref, css, role that the selector
\* carries, and nothing else
FirstKey(selector) ==
    IF selector.ref # NoRefKey THEN ByRef(selector.ref)
    ELSE IF selector.css # NoKey THEN ByCss(selector.css)
    ELSE IF selector.role # NoKey THEN ByRole(selector.role, selector.name)
    ELSE NoSelector

\* C32: a resolution evaluates one strategy: a selector with a ref key is
\* resolved by reference only, else one with a css key by pattern only, else
\* one with a role key by role only; the other keys of the selector do not
\* change the outcome, and a selector with none of the three keys fails with
\* ELEMENT_NOT_FOUND.
C32_OneStrategy ==
    \A sel \in MixedSelectors :
        /\ findElement(sel) = findElement(FirstKey(sel))
        /\ FirstKey(sel) = NoSelector => findElement(sel) = Threw("ELEMENT_NOT_FOUND")

\* A selector with css "button" and role button, name OK, on body > button >
\* button: the pattern matches two elements, role and name match one
C32_Witness ==
    /\ children[Body] = <<1>> /\ children[1] = <<2>> /\ hidden = {}
    /\ findElement([ref |-> NoRefKey, css |-> "button", role |-> "button", name |-> <<"OK">>])
          = Threw("ELEMENT_AMBIGUOUS")
    /\ findElement(ByRole("button", <<"OK">>)) = Returned(2)
    /\ findElement([ref |-> NoRefKey, css |-> "div", role |-> "button", name |-> <<"OK">>])
          = Threw("ELEMENT_NOT_FOUND")

----------------------------------------------------------------------------
\* The subtree of a node through child lists and shadow roots, the node included
RECURSIVE FlatSubtree(_)
FlatSubtree(n) ==
    <<n>> \o Concat([k \in 1..Len(getChildren(n)) |-> FlatSubtree(getChildren(n)[k])])

\* The element is hidden or lies in the subtree of a hidden element
InHiddenSubtree(e) == \E a \in Elems : isHidden(a) /\ e \in Range(FlatSubtree(a))

\* C17: a snapshot has no row for a hidden element nor for an element in
\* the subtree of a hidden element, whichever way the walk reaches it: as a
\* child, through a shadow root, or through aria-owns.
C17_Step ==
    (generateAriaSnapshot /\ WalkReturns) =>
        \A k \in 1..Len(lastSnapshot'.elements) :
            ~InHiddenSubtree(lastSnapshot'.elements[k].el)

C17_HiddenExcluded == [][C17_Step]_vars

\* C26: the walk of a snapshot terminates on every page, a page whose
\* aria-owns attributes form a cycle (an element owning itself, an ancestor,
\* or two elements owning each other) included: every call of
\* generateAriaSnapshot returns, without exhausting the stack, a snapshot of
\* the page it was called on.
C26_Step ==
    generateAriaSnapshot =>
        /\ WalkReturns
        /\ lastSnapshot'.taken
        /\ [k \in 1..Len(lastSnapshot'.elements) |-> lastSnapshot'.elements[k].el]
              = walkDeep(Body, StackLimit).rows

C26_SnapshotCompletes == [][C26_Step]_vars

\* The elements of the flattened tree below a set of nodes, hidden subtrees
\* left out, k levels down
Callees(n) ==
    {c \in Range(getChildren(n)) \cup ({Owned(n)} \ {NoElem}) : ~isHidden(c)}

RECURSIVE Below(_, _)
Below(S, k) == IF k = 0 THEN S ELSE Below(S \cup UNION {Callees(n) : n \in S}, k - 1)

\* The elements a walk from the body comes to
Walked == Below({Body}, MaxElems + 1) \ {Body}

\* The roles a snapshot exposes
Exposed(role, alt) ==
    \/ role \in interactiveRoles \cup structuralRoles
    \/ (role = "img" /\ alt \notin {NoAttr, ""})

\* C29: every row of a snapshot has a role of the interactive set or of the
\* structural set, or is an img with non-empty alt; an element with any other
\* role has no row, and the elements below it are walked all the same: every
\* element the walk comes to whose role is exposed has a row.
C29_Step ==
    (generateAriaSnapshot /\ WalkReturns) =>
        LET rows == lastSnapshot'.elements IN
        /\ \A k \in 1..Len(rows) :
              /\ rows[k].role = getAriaRole(rows[k].el)
              /\ Exposed(rows[k].role, elemAttrs[rows[k].el].alt)
        /\ \A e \in Walked :
              Exposed(getAriaRole(e), elemAttrs[e].alt)
                  => \E k \in 1..Len(rows) : rows[k].el = e

C29_OnlyExposedRoles == [][C29_Step]_vars

\* A snapshot of body > dialog > button has one row, the button's
C29_Witness ==
    /\ lastSnapshot.taken
    /\ children[Body] = <<1>> /\ children[1] = <<2>>
    /\ elemAttrs[1].role = "dialog"
    /\ Len(lastSnapshot.elements) = 1
    /\ lastSnapshot.elements[1].el = 2
    /\ lastSnapshot.elements[1].role = "button"

\* Pre-order of the flattened tree below a node, k levels down: the node,
\* then the subtrees of its children in document order, then those of the
\* children of its shadow root, then that of the element its aria-owns names;
\* a hidden element and what lies below it are not part of it
RECURSIVE Flattened(_, _)
Flattened(n, k) ==
    IF k = 0 \/ (n # Body /\ isHidden(n)) THEN <<>>
    ELSE <<n>>
         \o Concat([i \in 1..Len(children[n]) |-> Flattened(children[n][i], k - 1)])
         \o (IF n = Body THEN <<>>
             ELSE Concat([i \in 1..Len(shadow[n]) |-> Flattened(shadow[n][i], k - 1)]))
         \o (IF Owned(n) = NoElem THEN <<>> ELSE Flattened(Owned(n), k - 1))

\* C30: the rows of a snapshot are the exposed elements in pre-order,
\* depth-first, of the flattened tree: an element before the elements of its
\* subtree, siblings in document order, the children of an element's shadow
\* root after its regular children, and the element reached through
\* aria-owns after all of the owner's own children.
C30_Step ==
    (generateAriaSnapshot /\ WalkReturns) =>
        [k \in 1..Len(lastSnapshot'.elements) |-> lastSnapshot'.elements[k].el]
            = SelectSeq(Flattened(Body, StackLimit),
                        LAMBDA e : e # Body /\ Exposed(getAriaRole(e), elemAttrs[e].alt))

C30_PreOrder == [][C30_Step]_vars

\* The first element has a child, a shadow child and owns its child: the
\* rows are the element, the child, the shadow child, the child again
C30_Witness ==
    /\ lastSnapshot.taken
    /\ children[Body] = <<1>> /\ children[1] = <<2>> /\ shadow[1] = <<3>> /\ owns[1] = 2
    /\ [k \in 1..Len(lastSnapshot.elements) |-> lastSnapshot.elements[k].el] = <<1, 2, 3, 2>>


----------------------------------------------------------------------------
\* How many times an element occurs in a sequence
Occurrences(q, e) == Cardinality({k \in 1..Len(q) : q[k] = e})

\* C31: an element the walk reaches more than once (as a child and through
\* aria-owns) has one row per visit in the snapshot, and all rows of an
\* element carry the same reference.
C31_SameRef ==
    \A j, k \in 1..Len(lastSnapshot.elements) :
        lastSnapshot.elements[j].el = lastSnapshot.elements[k].el
            => lastSnapshot.elements[j].ref = lastSnapshot.elements[k].ref

C31_Step ==
    (generateAriaSnapshot /\ WalkReturns) =>
        \A e \in Elems :
            Exposed(getAriaRole(e), elemAttrs[e].alt) =>
                Occurrences([k \in 1..Len(lastSnapshot'.elements) |->
                                lastSnapshot'.elements[k].el], e)
                    = Occurrences(Flattened(Body, StackLimit), e)

C31_RowPerVisit == [](C31_SameRef) /\ [][C31_Step]_vars

\* The second element is a child of the first and owned by it: two rows for
\* it, with one reference
C31_Witness ==
    /\ lastSnapshot.taken
    /\ children[Body] = <<1>> /\ children[1] = <<2>> /\ owns[1] = 2
    /\ Len(lastSnapshot.elements) = 3
    /\ lastSnapshot.elements[2].el = 2 /\ lastSnapshot.elements[3].el = 2
    /\ lastSnapshot.elements[2].ref = lastSnapshot.elements[3].ref
    /\ lastSnapshot.elements[2].ref # NoRef

----------------------------------------------------------------------------
(* Part III: the classifier, on one element with attributes.  A text is a    *)
(* sequence of tokens: " " is one white-space character, any other token a   *)
(* run of characters without white space.  An attribute value is a text;     *)
(* the empty text stands for an absent attribute.  The element has no        *)
(* aria-labelledby and is not an image; an input element may have a label.   *)

MaxAttrs == 2

Space == " "
Tab == "\t"

\* The characters \s matches and trim removes
WhiteSpace == {Space, Tab}

\* String.prototype.trim
RECURSIVE TrimStart(_)
TrimStart(t) == IF t # <<>> /\ Head(t) \in WhiteSpace THEN TrimStart(Tail(t)) ELSE t

RECURSIVE TrimEnd(_)
TrimEnd(t) ==
    IF t # <<>> /\ t[Len(t)] \in WhiteSpace THEN TrimEnd(SubSeq(t, 1, Len(t) - 1)) ELSE t

Trim(t) == TrimEnd(TrimStart(t))

\* text.replace(/\s+/g, " "): every run of white space becomes one space
RECURSIVE CollapseSpaces(_)
CollapseSpaces(t) ==
    IF t = <<>> THEN t
    ELSE IF t[1] \notin WhiteSpace THEN <<t[1]>> \o CollapseSpaces(Tail(t))
    ELSE IF Len(t) > 1 /\ t[2] \in WhiteSpace THEN CollapseSpaces(Tail(t))
    ELSE <<Space>> \o CollapseSpaces(Tail(t))

\* The replace of normalizeWhitespace without its trim
CollapseOnly(t) == CollapseSpaces(t)

\* normalizeWhitespace
normalizeWhitespace(t) == Trim(CollapseSpaces(t))

\* text.substring(0, 100), a token counting as one character
NameLimit == 100
Substring(t) == SubSeq(t, 1, IF Len(t) < NameLimit THEN Len(t) ELSE NameLimit)

\* explicitRole.split(/\s+/)
SplitSpaces(t) == SelectSeq(t, LAMBDA x : x \notin WhiteSpace)

\* Attributes and element properties a page script sets, with their values
AttrPairs ==
    {<<"role", <<"checkbox">> >>, <<"role", <<"heading">> >>, <<"role", <<"tab">> >>,
     <<"role", <<"button", Space, "link">> >>,
     <<"aria-label", <<"Go">> >>, <<"aria-label", <<"G", Space, Space, "o">> >>,
     <<"href", <<"/x">> >>,
     <<"type", <<"checkbox">> >>, <<"type", <<"number">> >>,
     <<"aria-checked", <<"true">> >>, <<"aria-checked", <<"false">> >>,
     <<"aria-checked", <<"mixed">> >>,
     <<"aria-disabled", <<"true">> >>,
     <<"aria-expanded", <<"true">> >>, <<"aria-expanded", <<"false">> >>,
     <<"aria-pressed", <<"true">> >>, <<"aria-pressed", <<"false">> >>,
     <<"aria-pressed", <<"mixed">> >>,
     <<"aria-selected", <<"true">> >>,
     <<"aria-level", <<"3">> >>, <<"aria-level", <<"x">> >>,
     <<"title", <<"T">> >>, <<"placeholder", <<"P">> >>,
     <<"value", <<"v">> >>,
     <<"checked", <<"on">> >>, <<"indeterminate", <<"on">> >>, <<"disabled", <<"on">> >>,
     <<"selected", <<"on">> >>, <<"focused", <<"on">> >>}

ElementTags == {"button", "a", "nav", "input", "h2", "div"}
ElementTexts == {<<"OK">>, <<"O", Space, Space, "K">>}

\* Sets of at most n attributes, no attribute set twice
RECURSIVE AttrSets(_)
AttrSets(n) ==
    IF n = 0 THEN {{}}
    ELSE AttrSets(n - 1) \cup
         UNION {{S \cup {p} : p \in {q \in AttrPairs : \A r \in S : r[1] # q[1]}} :
                   S \in AttrSets(n - 1)}

\* HTMLInputElement.labels: the texts of the label elements of an input
\* element; a label may have no text
NoLabels == <<>>
LabelLists == {<< <<>> >>, << <<"L">> >>}

ElementNodes ==
    [tag : ElementTags, attrs : AttrSets(MaxAttrs), text : ElementTexts, labels : {NoLabels}]
        \cup [tag : {"input"}, attrs : AttrSets(MaxAttrs), text : {<<"OK">>},
              labels : LabelLists]

NoNode == [tag |-> Undefined, attrs |-> {}, text |-> <<>>, labels |-> NoLabels]

\* element.getAttribute(name); the empty text when the attribute is absent
getAttribute(d, name) ==
    IF \E p \in d.attrs : p[1] = name
    THEN (CHOOSE p \in d.attrs : p[1] = name)[2]
    ELSE <<>>

hasAttribute(d, name) == \E p \in d.attrs : p[1] = name

\* element instanceof HTML...Element
IsInput(d) == d.tag = "input"
IsButton(d) == d.tag = "button"

\* HTMLInputElement.type: the type attribute, "text" when it is absent
InputType(d) == IF hasAttribute(d, "type") THEN getAttribute(d, "type")[1] ELSE "text"

\* Node.textContent; an input element has no content
TextContentOf(d) == IF IsInput(d) THEN <<>> ELSE d.text

----------------------------------------------------------------------------
(* Part III: aria-snapshot.ts on the element *)

\* getInputRole of aria-snapshot.ts
getInputRole(type) ==
    CASE type = "button" -> "button"
      [] type = "checkbox" -> "checkbox"
      [] type = "radio" -> "radio"
      [] type \in {"text", "email", "password", "tel", "url"} -> "textbox"
      [] type = "search" -> "searchbox"
      [] type = "number" -> "spinbutton"
      [] type = "range" -> "slider"
      [] OTHER -> "textbox"

\* getAriaRole: the first token of the role attribute, else the tag's role,
\* "null" when there is none
getAriaRoleOf(d) ==
    IF getAttribute(d, "role") # <<>>
    THEN SplitSpaces(getAttribute(d, "role"))[1]
    ELSE CASE d.tag = "a" -> IF hasAttribute(d, "href") THEN "link" ELSE "null"
           [] d.tag = "button" -> "button"
           [] d.tag = "input" -> getInputRole(InputType(d))
           [] d.tag = "h2" -> "heading"
           [] d.tag = "nav" -> "navigation"
           [] OTHER -> "null"

\* getAccessibleName of aria-snapshot.ts
getAccessibleNameOf(d) ==
    IF getAttribute(d, "aria-label") # <<>>
    THEN normalizeWhitespace(getAttribute(d, "aria-label"))
    ELSE IF IsInput(d) /\ Len(d.labels) > 0
    THEN normalizeWhitespace(d.labels[1])
    ELSE IF getAttribute(d, "title") # <<>>
    THEN normalizeWhitespace(getAttribute(d, "title"))
    ELSE IF getAttribute(d, "placeholder") # <<>>
    THEN normalizeWhitespace(getAttribute(d, "placeholder"))
    ELSE IF getAriaRoleOf(d) \in {"button", "link", "heading", "menuitem", "tab"}
    THEN normalizeWhitespace(TextContentOf(d))
    ELSE IF IsInput(d) /\ getAttribute(d, "value") # <<>>
    THEN normalizeWhitespace(getAttribute(d, "value"))
    ELSE normalizeWhitespace(Substring(TextContentOf(d)))

\* parseInt(text, 10) on a one-token text; NaN when it does not start with a digit
NaN == -1
ParseInt(t) ==
    CASE t = <<"1">> -> 1 [] t = <<"2">> -> 2 [] t = <<"3">> -> 3
      [] t = <<"4">> -> 4 [] t = <<"5">> -> 5 [] t = <<"6">> -> 6
      [] OTHER -> NaN

\* getCheckedState: "true", "false", "mixed" or Undefined
getCheckedState(d) ==
    IF getAttribute(d, "aria-checked") \in {<<"true">>, <<"false">>, <<"mixed">>}
    THEN getAttribute(d, "aria-checked")[1]
    ELSE IF IsInput(d)
    THEN IF hasAttribute(d, "indeterminate") THEN "mixed"
         ELSE IF hasAttribute(d, "checked") THEN "true" ELSE "false"
    ELSE Undefined

AlwaysDisabled(d) == TRUE

\* getDisabledState
getDisabledState(d) ==
    IF getAttribute(d, "aria-disabled") = <<"true">> THEN TRUE
    ELSE IF IsInput(d) \/ IsButton(d) THEN hasAttribute(d, "disabled")
    ELSE FALSE

\* getSelectedState; the element is no option element
getSelectedState(d) == getAttribute(d, "aria-selected") = <<"true">>

\* getLevel: the level, NaN standing for undefined
getLevel(d) ==
    IF getAttribute(d, "aria-level") # <<>> /\ ParseInt(getAttribute(d, "aria-level")) # NaN
    THEN ParseInt(getAttribute(d, "aria-level"))
    ELSE IF d.tag = "h2" THEN ParseInt(<<"2">>)
    ELSE NaN

checkedRolesAndHeading ==
    {"checkbox", "radio", "menuitemcheckbox", "menuitemradio", "switch", "heading"}

checkedRoles == {"checkbox", "radio", "menuitemcheckbox", "menuitemradio", "switch"}
disabledRoles ==
    {"button", "checkbox", "combobox", "gridcell", "link", "listbox", "menuitem",
     "menuitemcheckbox", "menuitemradio", "option", "radio", "searchbox", "slider",
     "spinbutton", "switch", "tab", "textbox"}
expandedRoles == {"button", "combobox", "disclosure", "menu", "menubar", "navigation", "tab"}
selectedRoles == {"option", "tab", "treeitem", "gridcell"}
levelRoles == {"heading", "treeitem"}

\* A state token: its name and, after "=", its value
Token(name, value) == <<name, value>>
Plain == ""

\* getAriaStates: the tokens in the order they are pushed
getAriaStates(d, role) ==
    (IF hasAttribute(d, "focused") THEN <<Token("focused", Plain)>> ELSE <<>>)
    \o (IF role \in checkedRoles
        THEN CASE getCheckedState(d) = "true" -> <<Token("checked", Plain)>>
               [] getCheckedState(d) = "false" -> <<Token("unchecked", Plain)>>
               [] getCheckedState(d) = "mixed" -> <<Token("checked", "mixed")>>
               [] OTHER -> <<>>
        ELSE <<>>)
    \o (IF role \in disabledRoles /\ getDisabledState(d)
        THEN <<Token("disabled", Plain)>> ELSE <<>>)
    \o (IF role \in expandedRoles
        THEN CASE getAttribute(d, "aria-expanded") = <<"true">> -> <<Token("expanded", Plain)>>
               [] getAttribute(d, "aria-expanded") = <<"false">> -> <<Token("collapsed", Plain)>>
               [] OTHER -> <<>>
        ELSE <<>>)
    \o (IF role = "button"
        THEN CASE getAttribute(d, "aria-pressed") = <<"true">> -> <<Token("pressed", Plain)>>
               [] getAttribute(d, "aria-pressed") = <<"false">> -> <<Token("not-pressed", Plain)>>
               [] getAttribute(d, "aria-pressed") = <<"mixed">> -> <<Token("pressed", "mixed")>>
               [] OTHER -> <<>>
        ELSE <<>>)
    \o (IF role \in selectedRoles /\ getSelectedState(d)
        THEN <<Token("selected", Plain)>> ELSE <<>>)
    \o (IF role \in levelRoles /\ getLevel(d) # NaN
        THEN <<Token("level", ToString(getLevel(d)))>> ELSE <<>>)

----------------------------------------------------------------------------
(* Part III: interactions.ts on the element *)

\* getInputRole of interactions.ts
getInputRoleOfInteractions(type) ==
    CASE type = "button" -> "button"
      [] type = "checkbox" -> "checkbox"
      [] type = "radio" -> "radio"
      [] type = "search" -> "searchbox"
      [] OTHER -> "textbox"

\* getElementRole: the whole role attribute, else the tag's role; a text,
\* empty when there is none
getElementRoleOf(d) ==
    IF getAttribute(d, "role") # <<>>
    THEN getAttribute(d, "role")
    ELSE CASE d.tag = "button" -> <<"button">>
           [] d.tag = "a" -> <<"link">>
           [] d.tag = "input" -> <<getInputRoleOfInteractions(InputType(d))>>
           [] d.tag = "h2" -> <<"heading">>
           [] OTHER -> <<>>

\* getAccessibleName of interactions.ts
getAccessibleNameOfInteractions(d) ==
    IF getAttribute(d, "aria-label") # <<>>
    THEN Trim(getAttribute(d, "aria-label"))
    ELSE IF IsInput(d) /\ Len(d.labels) > 0
    THEN Trim(d.labels[1])
    ELSE IF IsInput(d) /\ getAttribute(d, "placeholder") # <<>>
    THEN Trim(getAttribute(d, "placeholder"))
    ELSE Trim(TextContentOf(d))

\* findByRole on the page whose only element is d: whether d is collected
findByRoleOf(d, role, name) ==
    /\ getElementRoleOf(d) = <<role>>
    /\ (name = NameUndefined \/ getAccessibleNameOfInteractions(d) = name)

\* findElement for a role selector on that page
findElementOf(d, role, name) ==
    IF findByRoleOf(d, role, name) THEN "element" ELSE "ELEMENT_NOT_FOUND"

----------------------------------------------------------------------------
(* Part III: actions *)

NoRow == [walked |-> FALSE, included |-> FALSE, role |-> "null", name |-> <<>>,
          states |-> <<>>]

NotResolved == "none"

\* A page script creates the element
CreateElement ==
    /\ node = NoNode
    /\ node' \in ElementNodes
    /\ UNCHANGED <<row, resolved>>
    /\ UNCHANGED nonClsVars

\* walkAriaTree on the element, which is not hidden
WalkElement ==
    /\ node # NoNode
    /\ ~row.walked
    /\ LET role == getAriaRoleOf(node) IN
       row' = IF role # "null" /\ shouldIncludeElement(role, node)
              THEN [walked |-> TRUE, included |-> TRUE, role |-> role,
                    name |-> getAccessibleNameOf(node),
                    states |-> getAriaStates(node, role)]
              ELSE [NoRow EXCEPT !.walked = TRUE]
    /\ UNCHANGED <<node, resolved>>
    /\ UNCHANGED nonClsVars

\* findElement({role, name}) with the role and the name of the emitted row
ResolveRow ==
    /\ row.included
    /\ resolved = NotResolved
    /\ resolved' = findElementOf(node, row.role, row.name)
    /\ UNCHANGED <<node, row>>
    /\ UNCHANGED nonClsVars

InitWalk ==
    /\ owns = [n \in Nodes |-> NoElem]
    /\ shadow = [e \in Elems |-> <<>>]
    /\ elemAttrs = [e \in Elems |-> [role |-> NoAttr, alt |-> NoAttr]]

InitCls ==
    /\ node = NoNode
    /\ row = NoRow
    /\ resolved = NotResolved

NextCls ==
    \/ CreateElement
    \/ WalkElement
    \/ ResolveRow

----------------------------------------------------------------------------
(* Part III: properties *)

\* Roles a selector can name
SelectorRoles == {"button", "link", "heading", "navigation", "checkbox", "tab", "textbox",
                  "spinbutton"}

\* C13: role selectors are resolved with the role and the name the snapshot
\* computes: resolving the role and name of an emitted row finds the row's
\* element, and a role selector matches no element whose snapshot role is a
\* different one.
C13_SharedClassifier ==
    /\ resolved # NotResolved => resolved = "element"
    /\ row.walked =>
          \A role \in SelectorRoles :
              findByRoleOf(node, role, NameUndefined) => getAriaRoleOf(node) = role

\* The tokens of a row
TokenNames(states) == {states[k][1] : k \in 1..Len(states)}

\* C16: a row carries a state token only if its role supports the state:
\* checked/unchecked on checkbox, radio, menuitemcheckbox, menuitemradio and
\* switch; disabled on the roles that can be disabled; expanded/collapsed on
\* the roles that can expand, and only from an aria-expanded attribute;
\* pressed tokens on button; selected on option, tab, treeitem and gridcell;
\* level on heading and treeitem.  focused is on the row of every role,
\* exactly when the element holds the focus.
C16_StatesSupported ==
    row.included =>
        /\ \A t \in TokenNames(row.states) :
              /\ t \in {"checked", "unchecked"} =>
                    row.role \in {"checkbox", "radio", "menuitemcheckbox", "menuitemradio",
                                  "switch"}
              /\ t = "disabled" => row.role \in disabledRoles
              /\ t \in {"expanded", "collapsed"} =>
                    /\ row.role \in expandedRoles
                    /\ getAttribute(node, "aria-expanded") \in {<<"true">>, <<"false">>}
              /\ t \in {"pressed", "not-pressed"} => row.role = "button"
              /\ t = "selected" => row.role \in {"option", "tab", "treeitem", "gridcell"}
              /\ t = "level" => row.role \in {"heading", "treeitem"}
        /\ "focused" \in TokenNames(row.states) <=> hasAttribute(node, "focused")

\* A focused heading with aria-checked="true": its row says focused and
\* level=2 and nothing about checked
C16_Witness ==
    /\ row.included
    /\ row.role = "heading"
    /\ node.tag = "h2"
    /\ getAttribute(node, "aria-checked") = <<"true">>
    /\ hasAttribute(node, "focused")
    /\ row.states = <<Token("focused", Plain), Token("level", "2")>>

----------------------------------------------------------------------------
\* The words of a text, joined by single spaces
RECURSIVE JoinWords(_)
JoinWords(w) ==
    IF Len(w) <= 1 THEN w ELSE <<Head(w), Space>> \o JoinWords(Tail(w))

NameSources(d) ==
    <<getAttribute(d, "aria-label"),
      IF IsInput(d) /\ Len(d.labels) > 0 THEN d.labels[1] ELSE <<>>,
      getAttribute(d, "title"),
      getAttribute(d, "placeholder"),
      IF getAriaRoleOf(d) \in {"button", "link", "heading", "menuitem", "tab"}
      THEN TextContentOf(d) ELSE <<>>,
      IF IsInput(d) THEN getAttribute(d, "value") ELSE <<>>,
      Substring(TextContentOf(d))>>

FirstNonEmpty(values) ==
    IF \E k \in 1..Len(values) : values[k] # <<>>
    THEN values[CHOOSE k \in 1..Len(values) :
                    values[k] # <<>> /\ \A j \in 1..(k - 1) : values[j] = <<>>]
    ELSE <<>>

\* C33: the name of a row is the first non-empty value in the order of the
\* sources; an empty value of an earlier source (a label without text) does
\* not keep a later non-empty source (a placeholder) from giving the name.
C33_FirstNonEmptyName ==
    row.included => row.name = normalizeWhitespace(FirstNonEmpty(NameSources(node)))

----------------------------------------------------------------------------
(* Part IV: the content script.  handleMessage on INTERACT and SNAPSHOT      *)
(* messages; the page has no event listeners, no input, textarea or select   *)
(* elements and nothing content-editable.                                     *)

Absent == Undefined

\* A falsy optional string: undefined or the empty string
Falsy(x) == x \in {Absent, ""}

InteractParams(action, element, text, key, value, snapshot) ==
    [action |-> action, element |-> element, text |-> text, key |-> key,
     value |-> value, snapshot |-> snapshot]

\* The selectors of interact requests: one of each kind, or none
RequestSelectors ==
    {NoSelector, ByRef(Ref(1)), ByCss("button"), ByRole("button", <<"OK">>)}

\* The interact parameters a caller passes: the action's own parameter
\* present, empty or absent
InteractRequests ==
    {InteractParams(a, el, Absent, Absent, Absent, sn) :
        a \in {"click", "hover"}, el \in RequestSelectors, sn \in BOOLEAN}
    \cup {InteractParams("type", el, t, Absent, Absent, FALSE) :
            el \in RequestSelectors, t \in {Absent, "", "t"}}
    \cup {InteractParams("select", el, Absent, Absent, v, FALSE) :
            el \in RequestSelectors, v \in {Absent, "v"}}
    \cup {InteractParams("press", NoSelector, Absent, k, Absent, sn) :
            k \in {Absent, "Enter"}, sn \in BOOLEAN}

RequestIds == {1}

TabMessages ==
    [type : {"INTERACT"}, requestId : RequestIds, params : InteractRequests]
        \cup [type : {"SNAPSHOT"}, requestId : RequestIds, params : {Absent}]

\* A thrown Error: its message is either the JSON text of {code, message}
\* or plain text
JsonError(code, message) == [json |-> TRUE, code |-> code, message |-> message]
PlainError(message) == [json |-> FALSE, code |-> Undefined, message |-> message]
NoThrow == PlainError(Undefined)

\* What a call did before it returned or threw
Ran(steps) == [threw |-> FALSE, error |-> NoThrow, steps |-> steps]
Thrown(error, steps) == [threw |-> TRUE, error |-> error, steps |-> steps]

\* One thing done to the page: what, and to which element
Step(what, e) == <<what, e>>

\* The error findElement throws: its own are JSON texts, the TypeError is not
FindError(r) ==
    CASE r.code = "ELEMENT_NOT_FOUND" -> JsonError(r.code, "No element found matching selector")
      [] r.code = "ELEMENT_AMBIGUOUS" ->
            JsonError(r.code, "Multiple elements found matching selector")
      [] OTHER -> PlainError("elementRefMap.entries is not a function")

IsSelectElement(e) == TagOf(e) = "select"
IsValueElement(e) == TagOf(e) \in {"input", "textarea"}

\* click, up to waitForStability
click(selector) ==
    LET r == findElement(selector) IN
    IF r.kind # "element" THEN Thrown(FindError(r), <<Step("findElement", NoElem)>>)
    ELSE Ran(<<Step("findElement", r.el), Step("scrollIntoView", r.el),
               Step("mousedown", r.el), Step("mouseup", r.el), Step("click", r.el),
               Step("element.click", r.el)>>)

\* type, up to waitForStability
type(selector, text) ==
    LET r == findElement(selector) IN
    IF r.kind # "element" THEN Thrown(FindError(r), <<Step("findElement", NoElem)>>)
    ELSE Ran(<<Step("findElement", r.el), Step("scrollIntoView", r.el),
               Step("focus", r.el)>>
             \o (IF IsValueElement(r.el)
                 THEN <<Step("value", r.el), Step("input", r.el), Step("change", r.el)>>
                 ELSE <<>>))

\* hover, up to waitForStability
hover(selector) ==
    LET r == findElement(selector) IN
    IF r.kind # "element" THEN Thrown(FindError(r), <<Step("findElement", NoElem)>>)
    ELSE Ran(<<Step("findElement", r.el), Step("scrollIntoView", r.el),
               Step("mouseover", r.el), Step("mouseenter", r.el),
               Step("mousemove", r.el)>>)

\* The instanceof HTMLSelectElement test of select
SelectAny(e) == TRUE

SelectCapable(e) == IsSelectElement(e)

\* select, up to waitForStability
select(selector, value) ==
    LET r == findElement(selector) IN
    IF r.kind # "element" THEN Thrown(FindError(r), <<Step("findElement", NoElem)>>)
    ELSE IF ~SelectCapable(r.el)
    THEN Thrown(JsonError("INVALID_REQUEST", "Select action requires a <select> element"),
                <<Step("findElement", r.el)>>)
    ELSE Ran(<<Step("findElement", r.el), Step("scrollIntoView", r.el),
               Step("value", r.el), Step("change", r.el)>>)

\* press, up to waitForStability: the events go to the active element or the body
press(key) ==
    Ran(<<Step("keydown", Body), Step("keypress", Body), Step("keyup", Body)>>)

\* handleInteract, up to the await of the action's waitForStability
handleInteract(params) ==
    CASE params.action = "click" ->
            IF params.element = NoSelector
            THEN Thrown(PlainError("Element selector required for click action"), <<>>)
            ELSE click(params.element)
      [] params.action = "type" ->
            IF params.element = NoSelector \/ Falsy(params.text)
            THEN Thrown(PlainError("Element selector and text required for type action"), <<>>)
            ELSE type(params.element, params.text)
      [] params.action = "hover" ->
            IF params.element = NoSelector
            THEN Thrown(PlainError("Element selector required for hover action"), <<>>)
            ELSE hover(params.element)
      [] params.action = "select" ->
            IF params.element = NoSelector \/ Falsy(params.value)
            THEN Thrown(PlainError("Element selector and value required for select action"), <<>>)
            ELSE select(params.element, params.value)
      [] params.action = "press" ->
            IF Falsy(params.key)
            THEN Thrown(PlainError("Key required for press action"), <<>>)
            ELSE press(params.key)
      [] OTHER -> Thrown(PlainError("Unknown action"), <<>>)

\* A CONTENT_RESPONSE: the InternalResponse the content script sends back
NoResult == [success |-> FALSE, snapshot |-> NoSnapshot]
ContentSuccess(requestId, result) ==
    [requestId |-> requestId, success |-> TRUE, result |-> result, error |-> NoError]
ContentFailure(requestId, code, message) ==
    [requestId |-> requestId, success |-> FALSE, result |-> NoResult,
     error |-> [code |-> code, message |-> message]]

\* The catch of handleMessage: a message that parses as JSON with a code and a
\* message gives both; any other error is an INTERNAL_ERROR with its own text
CaughtCode(error) == IF error.json THEN error.code ELSE "INTERNAL_ERROR"
CaughtMessage(error) == error.message

\* generateAriaSnapshot as handleSnapshot and handleInteract call it
SnapshotWalk ==
    emitRows(walkAriaTree(Body), [counter |-> ResetCounter, map |-> elementRefMap], <<>>)

TakeSnapshot ==
    /\ elementRefCounter' = SnapshotWalk.tab.counter
    /\ elementRefMap' = SnapshotWalk.tab.map
    /\ lastSnapshot' = [taken |-> TRUE, elements |-> SnapshotWalk.rows]

InitCs ==
    /\ tabInbox = {}
    /\ performing = {}
    /\ effects = <<>>
    /\ contentReplies = {}

\* handleMessage, up to its first await that yields: a SNAPSHOT message is
\* answered at once, an INTERACT message either throws before the action's
\* waitForStability or starts waiting in it
handleMessage(message) ==
    /\ message \in tabInbox
    /\ tabInbox' = tabInbox \ {message}
    /\ IF message.type = "SNAPSHOT"
       THEN /\ TakeSnapshot
            /\ effects' = <<>>
            /\ contentReplies' = contentReplies \cup
                  {ContentSuccess(message.requestId,
                                  [success |-> FALSE,
                                   snapshot |-> [taken |-> TRUE,
                                                 elements |-> SnapshotWalk.rows]])}
            /\ UNCHANGED performing
       ELSE LET run == handleInteract(message.params) IN
            /\ effects' = run.steps
            /\ IF run.threw
               THEN /\ contentReplies' = contentReplies \cup
                          {ContentFailure(message.requestId, CaughtCode(run.error),
                                          CaughtMessage(run.error))}
                    /\ UNCHANGED performing
               ELSE /\ performing' = performing \cup {message}
                    /\ UNCHANGED contentReplies
            /\ UNCHANGED <<elementRefCounter, elementRefMap, lastSnapshot>>
    /\ UNCHANGED <<children, hidden, gone>>
    /\ UNCHANGED nonCsVars

\* waitForStability resolves: handleInteract builds its result, with a
\* snapshot if one was asked for, and handleMessage sends it
waitForStability(message) ==
    /\ message \in performing
    /\ performing' = performing \ {message}
    /\ IF message.params.snapshot
       THEN /\ TakeSnapshot
            /\ contentReplies' = contentReplies \cup
                  {ContentSuccess(message.requestId,
                                  [success |-> TRUE,
                                   snapshot |-> [taken |-> TRUE,
                                                 elements |-> SnapshotWalk.rows]])}
       ELSE /\ contentReplies' = contentReplies \cup
                  {ContentSuccess(message.requestId,
                                  [success |-> TRUE, snapshot |-> NoSnapshot])}
            /\ UNCHANGED <<elementRefCounter, elementRefMap, lastSnapshot>>
    /\ UNCHANGED <<tabInbox, effects>>
    /\ UNCHANGED <<children, hidden, gone>>
    /\ UNCHANGED nonCsVars

\* The background takes the reply to the last message and sends the tab the
\* next one; the record of page steps starts again
SendTabMessage(message) ==
    /\ tabInbox = {}
    /\ performing = {}
    /\ tabInbox' = {message}
    /\ contentReplies' = {}
    /\ effects' = <<>>
    /\ UNCHANGED performing
    /\ UNCHANGED <<domVars, nonCsVars>>

NextAct ==
    \/ \E m \in TabMessages : SendTabMessage(m)
    \/ \E m \in TabMessages : handleMessage(m)
    \/ \E m \in TabMessages : waitForStability(m)
    \/ \E parent \in Containers, e \in Few : AppendChild(parent, e)

----------------------------------------------------------------------------
(* Part IV: properties of the content script *)

\* The message handleMessage runs on in this step, if it runs
Handled(message) == message \in tabInbox /\ message \notin tabInbox'

\* The replies this step sends
NewReplies == contentReplies' \ contentReplies

\* An interact request without a parameter its action requires
MissingRequired(params) ==
    \/ params.action \in {"click", "type", "hover", "select"} /\ params.element = NoSelector
    \/ params.action = "type" /\ params.text = Absent
    \/ params.action = "press" /\ params.key = Absent
    \/ params.action = "select" /\ params.value = Absent

\* C18: an interact request that lacks a parameter its action requires is
\* answered with code INVALID_REQUEST, and nothing of the action is done: no
\* element is resolved, scrolled, focused or changed and no event is dispatched.
C18_Step ==
    \A m \in TabMessages :
        (Handled(m) /\ m.type = "INTERACT" /\ MissingRequired(m.params)) =>
            /\ \E r \in NewReplies :
                  /\ r.requestId = m.requestId
                  /\ ~r.success
                  /\ r.error.code = "INVALID_REQUEST"
            /\ effects' = <<>>

C18_MissingParamInvalid == [][C18_Step]_vars

\* The steps that change the page or the view of it
Mutations == {"scrollIntoView", "focus", "value", "input", "change"}

\* C19: a select action whose selector findElement resolves to one element,
\* which is not a select control, is answered with INVALID_REQUEST in the same
\* call, and that call does not scroll the element into view, set its value
\* or dispatch a change event.
C19_Step ==
    \A m \in TabMessages :
        (/\ Handled(m)
         /\ m.type = "INTERACT"
         /\ m.params.action = "select"
         /\ ~MissingRequired(m.params)
         /\ findElement(m.params.element).kind = "element"
         /\ Matches(m.params.element) = {findElement(m.params.element).el}
         /\ TagOf(findElement(m.params.element).el) # "select") =>
            /\ \E r \in NewReplies :
                  /\ r.requestId = m.requestId
                  /\ ~r.success
                  /\ r.error.code = "INVALID_REQUEST"
            /\ \A k \in 1..Len(effects') : effects'[k][1] \notin Mutations
            /\ performing' = performing

C19_SelectNeedsSelect == [][C19_Step]_vars

\* A select request was refused after its selector resolved to an element
C19_Witness ==
    /\ \E r \in contentReplies :
          r.error = [code |-> "INVALID_REQUEST",
                     message |-> "Select action requires a <select> element"]
    /\ Len(effects) = 1
    /\ effects[1][1] = "findElement"
    /\ effects[1][2] \in Elems

----------------------------------------------------------------------------
(* Part V: the background service worker between the server and the tab.     *)
(* Requests are interact requests; a WebSocket of the background and the     *)
(* server's socket for the same connection carry the same number.            *)

NoTab == 0
TabIds == {1}

\* The server URL of the build and one a CONNECT message names
DefaultUrl == "ws://localhost:9222"
Urls == {Undefined, DefaultUrl, "ws://localhost:9333"}

\* A reference no snapshot mints: the counter never gets that far
NeverMinted == 99

NoParams == InteractParams("none", NoSelector, Absent, Absent, Absent, FALSE)

\* The arguments the interact tool is called with
ToolRequests ==
    {InteractParams("click", ByRef(Ref(NeverMinted)), Absent, Absent, Absent, FALSE),
     InteractParams("click", ByCss("button"), Absent, Absent, Absent, TRUE)}

Request(id, method, params) == [id |-> id, method |-> method, params |-> params]

\* A text frame that is not JSON, and JSON.parse on a frame: it throws on that
\* one and returns the request of every other
NotJson == Request(0, "not JSON", NoParams)
JsonParseThrows(data) == data = NotJson

\* String.prototype.toUpperCase on the method names
ToUpperCase(method) ==
    CASE method = "interact" -> "INTERACT"
      [] method = "snapshot" -> "SNAPSHOT"
      [] OTHER -> method

ErrorResponse(id, code, message) ==
    [id |-> id, result |-> NoResult, error |-> [code |-> code, message |-> message]]

InitBg ==
    /\ bgWs = None
    /\ bgState = [c \in Conns |-> "unborn"]
    /\ connectedTabId = NoTab
    /\ connectionState = "disconnected"
    /\ waiting = {}
    /\ closedSince = FALSE
    /\ wsUrl = DefaultUrl
    /\ connectReply = Undefined
    /\ bgPending = {}
    /\ toExtension = {}
    /\ toServer = {}
    /\ asked = [i \in Ids |-> NoParams]

\* The interact tool: one sendRpcRequest("interact", params) per call
interact(params, send) ==
    /\ sendRpcRequestCall(DefaultTimeoutMs, send)
    /\ asked' = [asked EXCEPT ![nextId + 1] = params]
    /\ toExtension' = IF send = "sent"
                      THEN toExtension \cup
                              {[conn |-> ws, request |-> Request(nextId + 1, "interact", params)]}
                      ELSE toExtension
    /\ UNCHANGED <<bgWs, bgState, connectedTabId, connectionState, waiting, closedSince, wsUrl, connectReply, bgPending, toServer>>
    /\ UNCHANGED <<nonBgVars, csVars>>

\* The server accepts a connection the background has started
Accept(c) ==
    /\ bgState[c] = "connecting"
    /\ Connection(c)

\* The server's "message" listener on a response the background has sent
ServerReceive(msg) ==
    /\ msg \in toServer
    /\ msg.conn \in listeners
    /\ wsState[msg.conn] \in {"open", "closing"}
    /\ toServer' = toServer \ {msg}
    /\ handleResponse(msg.response)
    /\ UNCHANGED <<ws, wsState, listeners, nextId>>
    /\ UNCHANGED <<bgWs, bgState, connectedTabId, connectionState, waiting, closedSince, wsUrl, connectReply, bgPending, toExtension, asked>>
    /\ UNCHANGED <<nonBgVars, csVars>>

\* connect: refused while ws is open; else it records the tab and creates a
\* WebSocket, whose handlers are the actions below
AlreadyConnected == bgWs # None /\ bgState[bgWs] = "open"

ConnectAlways == TRUE

\* connect goes past its first test
ConnectAllowed == ~AlreadyConnected
Unborn == {c \in Conns : bgState[c] = "unborn"}

connect(tabId, url) ==
    /\ Unborn # {}
    /\ IF ConnectAllowed
       THEN LET c == CHOOSE c \in Unborn : \A d \in Unborn : c <= d IN
            /\ wsUrl' = IF url # Undefined THEN url ELSE wsUrl
            /\ connectionState' = "connecting"
            /\ connectedTabId' = tabId
            /\ bgWs' = c
            /\ bgState' = [bgState EXCEPT ![c] = "connecting"]
            /\ waiting' = waiting \cup {c}
            /\ connectReply' = Undefined
       ELSE /\ connectReply' = "Already connected"
            /\ UNCHANGED <<bgWs, bgState, connectedTabId, connectionState, waiting, wsUrl>>
    /\ closedSince' = FALSE
    /\ UNCHANGED <<bgPending, toExtension, toServer, asked>>
    /\ UNCHANGED <<rpcVars, nonBgVars, csVars>>

\* ws.onopen
onopen(c) ==
    /\ bgState[c] = "connecting"
    /\ wsState[c] # "unborn"
    /\ bgState' = [bgState EXCEPT ![c] = "open"]
    /\ connectionState' = "connected"
    /\ waiting' = waiting \ {c}
    /\ UNCHANGED <<bgWs, connectedTabId, closedSince, wsUrl, connectReply, bgPending, toExtension, toServer, asked>>
    /\ UNCHANGED <<rpcVars, nonBgVars, csVars>>

\* ws.onclose, of whichever WebSocket closes; a connect still waiting for
\* that socket then fails and its catch stores the same values again
onclose(c) ==
    /\ bgState[c] \in {"connecting", "open", "closing"}
    /\ bgState' = [bgState EXCEPT ![c] = "closed"]
    /\ connectionState' = "disconnected"
    /\ connectedTabId' = NoTab
    /\ bgWs' = None
    /\ waiting' = waiting \ {c}
    /\ closedSince' = TRUE
    /\ UNCHANGED <<wsUrl, connectReply>>
    /\ UNCHANGED <<bgPending, toExtension, toServer, asked>>
    /\ UNCHANGED <<rpcVars, nonBgVars, csVars>>

\* The 5 s timer of waitForConnection fires before the socket has opened:
\* the catch of connect runs, the socket itself is left as it is
connectionTimeout(c) ==
    /\ c \in waiting
    /\ bgState[c] = "connecting"
    /\ connectionState' = "disconnected"
    /\ connectedTabId' = NoTab
    /\ bgWs' = None
    /\ waiting' = waiting \ {c}
    /\ UNCHANGED <<bgState, closedSince, wsUrl, connectReply, bgPending, toExtension, toServer, asked>>
    /\ UNCHANGED <<rpcVars, nonBgVars, csVars>>

\* disconnect
disconnect ==
    /\ bgState' = IF bgWs # None
                  THEN [bgState EXCEPT ![bgWs] = IF @ \in {"connecting", "open"}
                                                 THEN "closing" ELSE @]
                  ELSE bgState
    /\ bgWs' = None
    /\ connectionState' = "disconnected"
    /\ connectedTabId' = NoTab
    /\ UNCHANGED <<waiting, closedSince, wsUrl, connectReply, bgPending, toExtension, toServer, asked>>
    /\ UNCHANGED <<rpcVars, nonBgVars, csVars>>

\* sendResponse: sends on ws if there is one and it is open, else only logs
CanSend == bgWs # None /\ bgState[bgWs] = "open"

sendResponse(response) ==
    toServer' = IF CanSend THEN toServer \cup {[conn |-> bgWs, response |-> response]}
                ELSE toServer

\* The peer of an open connection sends a text frame that is not JSON
SendText(c) ==
    /\ wsState[c] = "open"
    /\ bgState[c] = "open"
    /\ toExtension' = toExtension \cup {[conn |-> c, request |-> NotJson]}
    /\ toExtension' # toExtension
    /\ UNCHANGED <<bgWs, bgState, connectedTabId, connectionState, waiting, closedSince, wsUrl, connectReply,
                   bgPending, toServer, asked>>
    /\ UNCHANGED <<rpcVars, nonBgVars, csVars>>

\* ws.onmessage and handleServerMessage up to its await, or to its catch when
\* JSON.parse throws: a WebSocket delivers messages only while it is open
handleServerMessage(msg) ==
    /\ msg \in toExtension
    /\ bgState[msg.conn] = "open"
    /\ toExtension' = toExtension \ {msg}
    /\ IF JsonParseThrows(msg.request)
       THEN UNCHANGED <<toServer, bgPending, tabInbox>>
       ELSE IF connectedTabId = NoTab
       THEN /\ sendResponse(ErrorResponse(msg.request.id, "NO_TAB", "No tab connected"))
            /\ UNCHANGED <<bgPending, tabInbox>>
       ELSE /\ bgPending' = bgPending \cup {msg.request.id}
            /\ tabInbox' = tabInbox \cup
                  {[type |-> ToUpperCase(msg.request.method),
                    requestId |-> msg.request.id, params |-> msg.request.params]}
            /\ UNCHANGED toServer
    /\ UNCHANGED <<bgWs, bgState, connectedTabId, connectionState, waiting, closedSince, wsUrl, connectReply, asked>>
    /\ UNCHANGED <<performing, effects, contentReplies>>
    /\ UNCHANGED <<rpcVars, nonBgVars>>

\* handleContentResponse: the conversion to a protocol response
ProtocolResponse(reply) ==
    IF reply.success
    THEN [id |-> reply.requestId, result |-> reply.result, error |-> NoError]
    ELSE [id |-> reply.requestId, result |-> NoResult,
          error |-> IF reply.error = NoError
                    THEN [code |-> "INTERNAL_ERROR", message |-> "Unknown error"]
                    ELSE reply.error]

\* The CONTENT_RESPONSE listener: handleContentResponse resolves the pending
\* request, and handleServerMessage goes on from its await to sendResponse
NoResolverNever(reply) == FALSE

\* handleContentResponse: pendingRequests.get(response.requestId) finds nothing
NoResolver(reply) == reply.requestId \notin bgPending

handleContentResponse(reply) ==
    /\ reply \in contentReplies
    /\ contentReplies' = contentReplies \ {reply}
    /\ IF NoResolver(reply)
       THEN UNCHANGED <<bgPending, toServer>>
       ELSE /\ bgPending' = bgPending \ {reply.requestId}
            /\ sendResponse(ProtocolResponse(reply))
    /\ UNCHANGED <<bgWs, bgState, connectedTabId, connectionState, waiting, closedSince, wsUrl, connectReply, toExtension, asked>>
    /\ UNCHANGED <<tabInbox, performing, effects>>
    /\ UNCHANGED <<rpcVars, nonBgVars>>

\* The 30 s timer of handleServerMessage fires while the request is pending
requestTimeout(id) ==
    /\ id \in bgPending
    /\ bgPending' = bgPending \ {id}
    /\ sendResponse(ErrorResponse(id, "TIMEOUT", "Request timed out"))
    /\ UNCHANGED <<bgWs, bgState, connectedTabId, connectionState, waiting, closedSince, wsUrl, connectReply, toExtension, asked>>
    /\ UNCHANGED <<rpcVars, nonBgVars, csVars>>

NextExt ==
    \/ \E p \in ToolRequests, s \in {"sent", "dropped", "throwNoWs", "throwNotConnected",
                                     "throwOther"} : interact(p, s)
    \/ \E c \in Conns : Accept(c)
    \/ \E msg \in toServer : ServerReceive(msg)
    \/ \E t \in TabIds : connect(t, Undefined)
    \/ \E c \in Conns : onopen(c)
    \/ \E c \in Conns : onclose(c)
    \/ \E c \in Conns : connectionTimeout(c)
    \/ disconnect
    \/ \E c \in Conns : SendText(c)
    \/ \E msg \in toExtension : handleServerMessage(msg)
    \/ \E reply \in contentReplies : handleContentResponse(reply)
    \/ \E i \in Ids : requestTimeout(i)
    \/ \E m \in tabInbox : handleMessage(m)
    \/ \E m \in performing : waitForStability(m)
    \/ AppendChild(Body, 1)

----------------------------------------------------------------------------
(* Part V: properties of the pipeline *)

\* The call's selector is by ref and no element holds that reference
RefNeverMinted(i) ==
    /\ asked[i].element.ref # NoRefKey
    /\ \A e \in Elems : elementRefMap[e] # asked[i].element.ref

\* The call was settled by a response that came from the content script
AnsweredByPage(i) ==
    /\ promise[i].state \in {"fulfilled", "rejected"}
    /\ settledBy[i] = "response"
    /\ promise[i].code \notin {"NO_TAB", "TIMEOUT"}

\* C12: an interact call whose by-ref selector names a reference that no
\* snapshot minted, once the content script's answer has come back through
\* the background and the server's response handler, is rejected with code
\* ELEMENT_NOT_FOUND.
C12_RefNotFoundSurfaced ==
    \A i \in Ids :
        (RefNeverMinted(i) /\ AnsweredByPage(i)) =>
            /\ promise[i].state = "rejected"
            /\ promise[i].code = "ELEMENT_NOT_FOUND"

\* The request the background's onmessage runs on in this step, if it runs
Arrives(msg) == msg \in toExtension /\ msg \notin toExtension'

\* C20: a request that reaches the background while no tab is connected is
\* answered on its connection with an error response carrying its id and the
\* code NO_TAB, is not sent to a content script and not put into the pending
\* map, and its connection stays open.
C20_Step ==
    \A msg \in toExtension :
        (Arrives(msg) /\ ~JsonParseThrows(msg.request) /\ connectedTabId = NoTab) =>
            /\ \E r \in toServer' \ toServer :
                  /\ r.conn = msg.conn
                  /\ r.response.id = msg.request.id
                  /\ r.response.error.code = "NO_TAB"
            /\ tabInbox' = tabInbox
            /\ bgPending' = bgPending
            /\ bgState'[msg.conn] = "open"

C20_NoTabAnswered == [][C20_Step]_vars

----------------------------------------------------------------------------
\* The background sends a response with this id on this connection in this step
Responds(c, id) ==
    \E r \in toServer' \ toServer : r.conn = c /\ r.response.id = id

\* C21: no failure is swallowed: a message the background receives on its
\* connection, which is and stays open, leads to a response for its id: at
\* once, or it is forwarded and pending, and whatever ends its wait (the
\* content script's answer or the 30 s timer) sends a response for it.  This
\* holds when the message cannot be parsed as well.
C21_Step ==
    (CanSend /\ bgWs' = bgWs /\ bgState'[bgWs] = "open") =>
        /\ \A msg \in toExtension :
              (Arrives(msg) /\ msg.conn = bgWs) =>
                  \/ Responds(bgWs, msg.request.id)
                  \/ msg.request.id \in bgPending'
        /\ \A i \in bgPending \ bgPending' : Responds(bgWs, i)

C21_EveryRequestAnswered == [][C21_Step]_vars

\* C34: only messages received on the current connection settle pending
\* requests: a response the server reads from a connection that a newer one
\* has superseded resolves and rejects nothing and leaves the table alone.
C34_Step ==
    \A msg \in toServer :
        (msg \notin toServer' /\ hasWs /\ msg.conn # ws) =>
            /\ promise' = promise
            /\ pendingRequests' = pendingRequests

C34_OnlyCurrentConnection == [][C34_Step]_vars

\* C35: whenever connectionState is "connected", ws holds the open WebSocket
\* and a connected tab id is set, under every interleaving of CONNECT and
\* DISCONNECT with the open and close events of the sockets and the 5 s timer.
C35_ConnectedHasSocket ==
    connectionState = "connected" =>
        /\ bgWs # None
        /\ bgState[bgWs] = "open"
        /\ connectedTabId # NoTab

\* C36: the background sends at most one response per request id it
\* received.  A response is sent only in the step that takes the id out of the
\* pending map (the content script's answer or the 30 s timer, whichever is
\* first) or that answers the request at once; a content response for an id
\* that is not pending is ignored; and an id is received once and is not
\* pending when it is received.
C36_Step ==
    /\ \A reply \in contentReplies :
          (reply \notin contentReplies' /\ reply.requestId \notin bgPending) =>
              /\ toServer' = toServer
              /\ bgPending' = bgPending
    /\ Cardinality(toServer' \ toServer) <= 1
    /\ \A r \in toServer' \ toServer :
          \/ r.response.id \in bgPending \ bgPending'
          \/ /\ r.response.id \notin bgPending'
             /\ \E msg \in toExtension \ toExtension' : msg.request.id = r.response.id
    /\ \A i \in bgPending \ bgPending' :
          \/ \E reply \in contentReplies \ contentReplies' : reply.requestId = i
          \/ (CanSend => \E r \in toServer' : r.response.id = i
                                              /\ r.response.error.code = "TIMEOUT")
    /\ \A msg \in toExtension' \ toExtension :
          ~JsonParseThrows(msg.request) =>
              msg.request.id = nextId + 1 /\ nextId' = nextId + 1
    /\ \A msg \in toExtension \ toExtension' : msg.request.id \notin bgPending

C36_OneResponse == [][C36_Step]_vars

\* The 30 s timer answered a call with TIMEOUT, and the content script's
\* answer, which came later, has been taken and ignored
C36_Witness ==
    \E i \in Ids :
        /\ promise[i].state = "rejected" /\ promise[i].code = "TIMEOUT"
        /\ settledBy[i] = "response"
        /\ i \notin bgPending
        /\ \A m \in tabInbox \cup performing : m.requestId # i
        /\ \A reply \in contentReplies : reply.requestId # i
        /\ \A r \in toServer : r.response.id # i

\* C23: the extension never reconnects on its own: once a WebSocket of the
\* background has closed, connectionState is "disconnected" and stays so, and
\* no WebSocket is created, until a CONNECT message is received.
C23_Disconnected == closedSince => connectionState = "disconnected"

C23_Step ==
    (closedSince /\ closedSince') =>
        \A c \in Conns : bgState[c] = "unborn" => bgState'[c] = "unborn"

C23_NoReconnect == [](C23_Disconnected) /\ [][C23_Step]_vars

\* C37: a CONNECT message received while the WebSocket of the background is
\* open is answered with the error "Already connected" and changes nothing:
\* the socket, its state, the connection state, the connected tab id and the
\* server URL are after it what they were before.
C37_Step ==
    \A t \in TabIds, url \in Urls :
        (AlreadyConnected /\ connect(t, url)) =>
            /\ connectReply' = "Already connected"
            /\ UNCHANGED <<bgWs, bgState, connectionState, connectedTabId, wsUrl>>

C37_ConnectWhileOpenRefused == [][C37_Step]_vars

\* A CONNECT has just been refused on an open, connected socket
C37_Witness ==
    /\ connectReply = "Already connected"
    /\ AlreadyConnected
    /\ connectionState = "connected"
    /\ connectedTabId \in TabIds
    /\ wsUrl \in Urls \ {Undefined}

----------------------------------------------------------------------------
(* Part VI: normalizeWhitespace on the texts of a page *)

MaxText == 4

\* The texts of at most n characters and words
RECURSIVE Texts(_)
Texts(n) ==
    IF n = 0 THEN {<<>>}
    ELSE Texts(n - 1) \cup {Append(t, c) : t \in Texts(n - 1), c \in WhiteSpace \cup {"a", "b"}}

NotNormalized == [done |-> FALSE, value |-> <<>>]

InitTxt ==
    /\ rawText = <<>>
    /\ normalized = NotNormalized

\* getAccessibleName reads a label, a title, a placeholder or textContent
ReadText ==
    /\ normalized.done \/ rawText = <<>>
    /\ rawText' \in Texts(MaxText)
    /\ normalized' = NotNormalized
    /\ UNCHANGED nonTxtVars

\* getAccessibleName passes the text to normalizeWhitespace
Normalize ==
    /\ ~normalized.done
    /\ normalized' = [done |-> TRUE, value |-> normalizeWhitespace(rawText)]
    /\ UNCHANGED rawText
    /\ UNCHANGED nonTxtVars

\* A name that was returned is the text of a later call
Renormalize ==
    /\ normalized.done
    /\ rawText' = normalized.value
    /\ normalized' = [done |-> TRUE, value |-> normalizeWhitespace(normalized.value)]
    /\ UNCHANGED nonTxtVars

NextTxt ==
    \/ ReadText
    \/ Normalize
    \/ Renormalize

\* C24: normalizing a normalized name returns it unchanged, and a normalized
\* name has no white space at either end and no two white-space characters
\* in a row.
C24_Idempotent ==
    normalized.done =>
        LET v == normalized.value IN
        /\ normalizeWhitespace(v) = v
        /\ v # <<>> => v[1] \notin WhiteSpace /\ v[Len(v)] \notin WhiteSpace
        /\ \A k \in 1..(Len(v) - 1) : ~(v[k] \in WhiteSpace /\ v[k + 1] \in WhiteSpace)
        /\ \A k \in 1..Len(v) : v[k] \in WhiteSpace => v[k] = Space

C24_Step == Renormalize => normalized'.value = normalized.value

C24_NormalizeIdempotent == [](C24_Idempotent) /\ [][C24_Step]_vars

C24_Witness ==
    /\ normalized.done
    /\ rawText = <<"a", Tab, Space, "b">>
    /\ normalized.value = <<"a", Space, "b">>

----------------------------------------------------------------------------
(* Part VII: the console capture of the content script *)

\* The source keeps 1000 entries; the model keeps this many
MAX_LOGS == 3

LogLevels == {"log", "error"}
\* The arguments of a console call: strings, which captureLog joins with " "
LogArgs == {<<"a", "b">>}
Times == {0, 1}

\* capturedLogs is one array for the life of the page; the spread of
\* getConsoleLogs makes another
Buffer == "capturedLogs"
Spread == "[...capturedLogs]"
ArrayIds == {Buffer, Spread}

capturedLogs == arrays[Buffer]

\* The console calls the model follows between two clears
MaxCaptures == MAX_LOGS + 2

InitLog ==
    /\ arrays = [a \in ArrayIds |-> <<>>]
    /\ logs = Undefined
    /\ now = 0
    /\ captured = <<>>

NeverOverfull(q) == FALSE

\* captureLog: if (capturedLogs.length > MAX_LOGS)
Overfull(q) == Len(q) > MAX_LOGS

\* captureLog(level, args) at time t: push, then shift when over the limit
captureLog(level, args, t) ==
    /\ Len(captured) < MaxCaptures
    /\ t >= now
    /\ LET log == [level |-> level, ts |-> t, text |-> JoinWords(args)]
           pushed == Append(capturedLogs, log)
       IN /\ arrays' = [arrays EXCEPT ![Buffer] =
                            IF Overfull(pushed) THEN Tail(pushed) ELSE pushed]
          /\ captured' = Append(captured, log)
    /\ now' = t
    /\ UNCHANGED logs
    /\ UNCHANGED nonLogVars

\* getConsoleLogs: return [...capturedLogs]
getConsoleLogs ==
    /\ arrays' = [arrays EXCEPT ![Spread] = capturedLogs]
    /\ logs' = Spread
    /\ UNCHANGED <<now, captured>>
    /\ UNCHANGED nonLogVars

\* The caller changes the list it was returned: shift(), pop(), reverse()
Reversed(q) == [i \in 1..Len(q) |-> q[Len(q) + 1 - i]]

ChangeReturned ==
    /\ logs # Undefined
    /\ Len(arrays[logs]) > 0
    /\ \E q \in {Tail(arrays[logs]),
                 SubSeq(arrays[logs], 1, Len(arrays[logs]) - 1),
                 Reversed(arrays[logs])} :
           /\ q # arrays[logs]
           /\ arrays' = [arrays EXCEPT ![logs] = q]
    /\ UNCHANGED <<logs, now, captured>>
    /\ UNCHANGED nonLogVars

\* clearConsoleLogs: capturedLogs.length = 0
clearConsoleLogs ==
    /\ capturedLogs # <<>>
    /\ arrays' = [arrays EXCEPT ![Buffer] = <<>>]
    /\ captured' = <<>>
    /\ UNCHANGED <<logs, now>>
    /\ UNCHANGED nonLogVars

NextLog ==
    \/ \E level \in LogLevels, args \in LogArgs, t \in Times : captureLog(level, args, t)
    \/ getConsoleLogs
    \/ ChangeReturned
    \/ clearConsoleLogs

\* The last n entries of q
LastOf(q, n) == IF Len(q) <= n THEN q ELSE SubSeq(q, Len(q) - n + 1, Len(q))

\* C38: the console-log buffer never holds more than MAX_LOGS entries; it
\* holds the newest entries captured, in capture order (the oldest is dropped
\* first); getConsoleLogs returns another array with the entries of the
\* buffer, and a change of the returned list leaves the buffer as it was.
C38_Newest ==
    /\ Len(capturedLogs) <= MAX_LOGS
    /\ capturedLogs = LastOf(captured, MAX_LOGS)

C38_Step ==
    /\ getConsoleLogs => (logs' # Buffer /\ arrays'[logs'] = capturedLogs)
    /\ ChangeReturned => capturedLogs' = capturedLogs

C38_BoundedBuffer == [](C38_Newest) /\ [][C38_Step]_vars

\* The buffer is full and has dropped its two oldest entries, and the caller
\* has changed the list it was returned
C38_Witness ==
    /\ Len(captured) = MAX_LOGS + 2
    /\ Len(capturedLogs) = MAX_LOGS
    /\ captured[1] # captured[Len(captured)]
    /\ logs # Undefined
    /\ arrays[logs] # capturedLogs
    /\ Len(arrays[logs]) > 0

----------------------------------------------------------------------------
(* Specifications *)

Init ==
    /\ InitRpc /\ InitDom /\ InitWalk /\ InitCls /\ InitCs /\ InitBg /\ InitTxt
    /\ InitLog

SpecRpc == Init /\ [][NextRpc]_vars

NextWalk ==
    \/ generateAriaSnapshot
    \/ \E parent \in Containers, e \in Few : AppendChild(parent, e)
    \/ \E host \in Few, e \in Few : AppendShadow(host, e)
    \/ \E e \in Few : RemoveChild(e)
    \/ \E e \in Few : SetHidden(e)
    \/ \E n \in {Body} \cup Few, id \in Few \cup {NoElem} : SetOwns(n, id)

SpecWalk == Init /\ [][NextWalk]_vars

\* Pages that grow, with a shadow root and aria-owns on the first element
NextOrd ==
    \/ generateAriaSnapshot
    \/ \E parent \in Containers, e \in Elems : AppendChild(parent, e)
    \/ \E e \in Elems : AppendShadow(1, e)
    \/ \E id \in Elems \cup {NoElem} : SetOwns(1, id)

SpecOrd == Init /\ [][NextOrd]_vars

\* Pages that grow, with role and alt attributes on the first element
NextInc ==
    \/ generateAriaSnapshot
    \/ \E parent \in Containers, e \in Few : AppendChild(parent, e)
    \/ \E value \in RoleValues : SetRole(1, value)
    \/ \E value \in AltValues : SetAlt(1, value)

SpecInc == Init /\ [][NextInc]_vars

SpecDom == Init /\ [][NextDom]_vars

SpecCls == Init /\ [][NextCls]_vars

SpecAct == Init /\ [][NextAct]_vars

SpecExt == Init /\ [][NextExt]_vars

\* The pipeline without DISCONNECT, the 5 s timer and frames that are not
\* JSON, on the empty page: every click fails in the content script
NextBg ==
    \/ interact(InteractParams("click", ByCss("button"), Absent, Absent, Absent, FALSE), "sent")
    \/ \E c \in Conns : Accept(c)
    \/ \E msg \in toServer : ServerReceive(msg)
    \/ \E t \in TabIds : connect(t, Undefined)
    \/ \E c \in Conns : onopen(c)
    \/ \E c \in Conns : onclose(c)
    \/ \E msg \in toExtension : handleServerMessage(msg)
    \/ \E reply \in contentReplies : handleContentResponse(reply)
    \/ \E i \in Ids : requestTimeout(i)
    \/ \E m \in tabInbox : handleMessage(m)

SpecBg == Init /\ [][NextBg]_vars

\* The popup's messages and the events of the sockets, without requests
NextConn ==
    \/ \E t \in TabIds, url \in Urls : connect(t, url)
    \/ \E c \in Conns : Accept(c)
    \/ \E c \in Conns : onopen(c)
    \/ \E c \in Conns : onclose(c)
    \/ \E c \in Conns : connectionTimeout(c)
    \/ disconnect

SpecConn == Init /\ [][NextConn]_vars

SpecTxt == Init /\ [][NextTxt]_vars

SpecLog == Init /\ [][NextLog]_vars

====
